---- MODULE Spec2Model ----
(***************************************************************************)
(* The alert engine of middlewared (plugins/alert.py): the Alert Store,    *)
(* the reconciliation of observed alerts (__handle_alert), the scheduling  *)
(* pass (process_alerts / __run_alerts), the time-bucketed policies        *)
(* (AlertPolicy.receive_alerts), the dispatch pass (send_alerts), the      *)
(* one-shot operations and dismiss / restore.                              *)
(*                                                                         *)
(* Lists are sequences.  An Alert object is a record; the field obj is the *)
(* identity of the Python object (two records are the same object iff      *)
(* SameObj), so that an assignment through one reference is seen through   *)
(* every other reference to the object.  datetime.utcnow() reads the       *)
(* variable now; every job and every call of dismiss or restore starts at  *)
(* an instant later than any instant read before it.                       *)
(***************************************************************************)
EXTENDS Integers, Sequences, FiniteSets, TLC

\* ---------------------------------------------------------------- bounds
\* Last instant of the clock.
MaxNow == 3
\* Instants per clock hour and per calendar day.
HourLen == 2
DayLen == 4
\* Requests from outside that may wait in the job queue.
MaxQueue == 1
\* Last instant of the clock where the policies are driven on their own.
MaxClock == 5
\* Jobs that may wait in the queue when the periodic timer fires.
MaxTriggers == 2
\* Lock tokens of blocked sources that may exist at one time.
MaxLocks == 2
MaxRows == 3

\* ------------------------------------------------------------- registries
None == "None"
NoKey == <<>>

POLICIES == <<"IMMEDIATELY", "HOURLY", "DAILY", "NEVER">>
DEFAULT_POLICY == "IMMEDIATELY"

\* AlertLevel of middlewared.alert.base: only the order is used.
AlertLevel == [INFO |-> 1, NOTICE |-> 2, WARNING |-> 3, ERROR |-> 4,
               CRITICAL |-> 5, ALERT |-> 6, EMERGENCY |-> 7]

\* The products a class or source applies to when it names none.
AllProducts == {"SCALE", "SCALE_ENTERPRISE"}

\* The attributes an alert class has when it sets none (AlertClass);
\* expires_after is a number of instants, -1 for None.
AlertClassDefaults ==
    [level |-> "CRITICAL", products |-> AllProducts, one_shot |-> FALSE,
     deleted_automatically |-> TRUE, expires_after |-> -1,
     dismissable |-> FALSE, proactive_support |-> FALSE,
     proactive_support_notify_gone |-> TRUE]

\* AlertClass.class_by_name: the classes of alert.py and the classes the
\* sources and the one-shot callers of this model use.
class_by_name ==
    [AlertSourceRunFailed |-> AlertClassDefaults,
     AlertSourceRunFailedOnBackupNode |-> AlertClassDefaults,
     AutomaticAlertFailed |->
        [AlertClassDefaults EXCEPT !.level = "WARNING", !.one_shot = TRUE,
                                   !.deleted_automatically = FALSE],
     AppUpdate |->
        [AlertClassDefaults EXCEPT !.level = "INFO", !.one_shot = TRUE,
                                   !.deleted_automatically = FALSE],
     DiskFail |-> [AlertClassDefaults EXCEPT !.proactive_support = TRUE],
     TaskFailed |->
        [AlertClassDefaults EXCEPT !.level = "WARNING", !.one_shot = TRUE,
                                   !.products = {"SCALE_ENTERPRISE"},
                                   !.expires_after = 1],
     TempHigh |-> [AlertClassDefaults EXCEPT !.level = "WARNING"]]

ClassNames == DOMAIN class_by_name

\* alertclasses.config()["classes"]: the per-class overrides of the
\* deployment (class name -> policy, class name -> level).
classes ==
    [policy |-> [k \in {"TempHigh", "AppUpdate"} |->
                    IF k = "TempHigh" THEN "HOURLY" ELSE "NEVER"],
     level |-> [k \in {} |-> "INFO"],
     proactive_support |-> [k \in {} |-> TRUE]]

\* ALERT_SOURCES in registration order, and each source's attributes.
SourceNames == <<"disk", "temp", "ha">>
ALERT_SOURCES ==
    [disk |-> [products |-> AllProducts, failover_related |-> FALSE,
               run_on_backup_node |-> TRUE, interval |-> 0],
     temp |-> [products |-> AllProducts, failover_related |-> FALSE,
               run_on_backup_node |-> FALSE, interval |-> 2],
     ha |-> [products |-> {"SCALE_ENTERPRISE"}, failover_related |-> TRUE,
             run_on_backup_node |-> FALSE, interval |-> 0]]

\* ------------------------------------------------------------------ Alert
\* What a check or a create hook builds: Alert(klass, key=..., datetime=...).
\* datetime is None, or an instant with its offset from UTC (tz = None: naive).
NewAlert(klass, key, dt) ==
    [uuid |-> NoKey, node |-> None, source |-> None, klass |-> klass,
     key |-> key, given |-> dt, datetime |-> -1, last_occurrence |-> -1,
     dismissed |-> FALSE, obj |-> -1]

NoDatetime == [t |-> -1, tz |-> None, off |-> 0]
NaiveDatetime(t) == [t |-> t, tz |-> None, off |-> 0]
AwareDatetime(t, off) == [t |-> t, tz |-> "tz", off |-> off]

IdentityOf(a) == <<a.node, a.source, a.klass, a.key>>

\* Two references to one Python object.
SameObj(a, b) == a.obj = b.obj /\ IdentityOf(a) = IdentityOf(b)

Range(s) == {s[i] : i \in DOMAIN s}

\* Every reference of the list s to an object of objs shows that object's
\* fields as they are in objs.
Propagate(s, objs) ==
    [i \in DOMAIN s |->
        IF \E o \in objs : SameObj(o, s[i])
        THEN CHOOSE o \in objs : SameObj(o, s[i])
        ELSE s[i]]

\* --------------------------------------------------------------- policies
\* The bucketing functions of initialize(): the key of the instant d under
\* each policy.  A key is a tuple; None is the empty tuple.
date(d) == d \div DayLen
hour(d) == (d % DayLen) \div HourLen

PolicyKey_of_the_day(policy_name, d) ==
    CASE policy_name = "HOURLY" -> <<date(d), hour(d)>>
      [] policy_name \in {"DAILY", "IMMEDIATELY"} -> <<date(d)>>
      [] OTHER -> NoKey

PolicyKey(policy_name, d) ==
    CASE policy_name = "IMMEDIATELY" -> <<d>>
      [] policy_name = "HOURLY" -> <<date(d), hour(d)>>
      [] policy_name = "DAILY" -> <<date(d)>>
      [] OTHER -> NoKey

\* AlertPolicy.__init__
NewPolicy == [last_key_value |-> NoKey, last_key_value_alerts |-> <<>>]

HasUuid(s, uuid) == \E i \in DOMAIN s : s[i].uuid = uuid

\* {alert.uuid: alert for alert in alerts}: one entry per uuid, at the place
\* of the uuid's first alert, holding the uuid's last alert.
RECURSIVE DictByUuid(_)
DictByUuid(s) ==
    IF s = <<>> THEN <<>>
    ELSE LET init == DictByUuid(SubSeq(s, 1, Len(s) - 1))
             last == s[Len(s)]
         IN IF HasUuid(init, last.uuid)
            THEN [i \in DOMAIN init |->
                    IF init[i].uuid = last.uuid THEN last ELSE init[i]]
            ELSE Append(init, last)

\* AlertPolicy.receive_alerts: the policy after the call, gone and new.
receive_alerts_every_call(policy_name, policy, d, alerts) ==
    LET dict == DictByUuid(alerts)
    IN [policy |-> [last_key_value |-> PolicyKey(policy_name, d),
                    last_key_value_alerts |-> dict],
        gone_alerts |-> SelectSeq(policy.last_key_value_alerts,
                                  LAMBDA a : ~HasUuid(dict, a.uuid)),
        new_alerts |-> SelectSeq(dict,
                        LAMBDA a : ~HasUuid(policy.last_key_value_alerts, a.uuid))]

receive_alerts_swapped(policy_name, policy, d, alerts) ==
    LET dict == DictByUuid(alerts)
        key == PolicyKey(policy_name, d)
    IN IF key # policy.last_key_value
       THEN [policy |-> [last_key_value |-> key, last_key_value_alerts |-> dict],
             gone_alerts |-> SelectSeq(dict,
                        LAMBDA a : ~HasUuid(policy.last_key_value_alerts, a.uuid)),
             new_alerts |-> SelectSeq(policy.last_key_value_alerts,
                                  LAMBDA a : ~HasUuid(dict, a.uuid))]
       ELSE [policy |-> policy, gone_alerts |-> <<>>, new_alerts |-> <<>>]

receive_alerts_without_tracking(policy_name, policy, d, alerts) ==
    LET dict == DictByUuid(alerts)
        key == PolicyKey(policy_name, d)
    IN IF key # policy.last_key_value
       THEN [policy |-> [last_key_value |-> key,
                         last_key_value_alerts |-> policy.last_key_value_alerts],
             gone_alerts |-> SelectSeq(policy.last_key_value_alerts,
                                  LAMBDA a : ~HasUuid(dict, a.uuid)),
             new_alerts |-> SelectSeq(dict,
                        LAMBDA a : ~HasUuid(policy.last_key_value_alerts, a.uuid))]
       ELSE [policy |-> policy, gone_alerts |-> <<>>, new_alerts |-> <<>>]

receive_alerts(policy_name, policy, d, alerts) ==
    LET dict == DictByUuid(alerts)
        key == PolicyKey(policy_name, d)
    IN IF key # policy.last_key_value
       THEN [policy |-> [last_key_value |-> key, last_key_value_alerts |-> dict],
             gone_alerts |-> SelectSeq(policy.last_key_value_alerts,
                                  LAMBDA a : ~HasUuid(dict, a.uuid)),
             new_alerts |-> SelectSeq(dict,
                        LAMBDA a : ~HasUuid(policy.last_key_value_alerts, a.uuid))]
       ELSE [policy |-> policy, gone_alerts |-> <<>>, new_alerts |-> <<>>]

\* AlertPolicy.delete_alert
delete_alert(policy, alert) ==
    [policy EXCEPT !.last_key_value_alerts =
        SelectSeq(@, LAMBDA a : a.uuid # alert.uuid)]

get_alert_level(alert) ==
    IF alert.klass \in DOMAIN classes.level
    THEN AlertLevel[classes.level[alert.klass]]
    ELSE AlertLevel[class_by_name[alert.klass].level]

get_alert_policy(alert) ==
    IF alert.klass \in DOMAIN classes.policy
    THEN classes.policy[alert.klass]
    ELSE DEFAULT_POLICY

should_show_alert_of_the_product(alert, product_type) ==
    product_type \in class_by_name[alert.klass].products

\* AlertSerializer.should_show_alert
should_show_alert(alert, product_type) ==
    /\ product_type \in class_by_name[alert.klass].products
    /\ ~(alert.klass \in DOMAIN classes.policy /\ classes.policy[alert.klass] = "NEVER")

\* ---------------------------------------------------------- reconciliation
\* uuid.uuid4(): a value no other call returns.  The value names the alert it
\* is generated for and the instant of the call.
__uuid(alert, d) == <<alert.node, alert.source, alert.klass, alert.key, d>>

NaiveUtc_keeps_offset(dt) == dt.t

\* alert.datetime.astimezone(timezone.utc).replace(tzinfo=None)
NaiveUtc(dt) == IF dt.tz # None THEN dt.t - dt.off ELSE dt.t

Matches_by_class_and_key(alert, alerts) ==
    SelectSeq(alerts, LAMBDA a : a.klass = alert.klass /\ a.key = alert.key)

\* Lines 764-767: the stored alerts of the alert's node, source, class and key.
Matches(alert, alerts) ==
    SelectSeq(alerts, LAMBDA a : IdentityOf(a) = IdentityOf(alert))

__handle_alert_always_new(alert, alerts, d) ==
    [alert EXCEPT !.uuid = __uuid(alert, d), !.datetime = d, !.given = NoDatetime,
                  !.last_occurrence = d, !.dismissed = FALSE]

\* AlertService.__handle_alert: the alert as the call leaves it.
__handle_alert(alert, alerts, d) ==
    LET found == Matches(alert, alerts)
    IN IF found = <<>>
       THEN [alert EXCEPT
                !.uuid = __uuid(alert, d),
                !.datetime = IF alert.given = NoDatetime THEN d
                             ELSE NaiveUtc(alert.given),
                !.given = NoDatetime,
                !.last_occurrence = d,
                !.dismissed = FALSE]
       ELSE [alert EXCEPT
                !.uuid = found[1].uuid,
                !.datetime = found[1].datetime,
                !.given = NoDatetime,
                !.last_occurrence = d,
                !.dismissed = found[1].dismissed]

__should_expire_alert_of_any_class(alert, d) ==
    alert.last_occurrence < d - class_by_name[alert.klass].expires_after

\* AlertService.__should_expire_alert
__should_expire_alert(alert, d) ==
    IF class_by_name[alert.klass].one_shot
    THEN IF class_by_name[alert.klass].expires_after >= 0
         THEN alert.last_occurrence < d - class_by_name[alert.klass].expires_after
         ELSE FALSE
    ELSE FALSE

\* AlertService.__expire_alerts
__expire_alerts(alerts, d) ==
    SelectSeq(alerts, LAMBDA a : ~__should_expire_alert(a, d))

\* ------------------------------------------------------------ source runs
\* What a source's check() can do: return a list of alerts, raise, or raise
\* UnavailableException.
Ok(alerts) == [kind |-> "ok", alerts |-> alerts]
Raises == [kind |-> "raise", alerts |-> <<>>]
Unavailable == [kind |-> "unavailable", alerts |-> <<>>]

CheckOutcomes(source_name) ==
    IF source_name = "disk"
    THEN {Ok(<<>>),
          Ok(<<NewAlert("DiskFail", "sda", AwareDatetime(1, 1)),
               NewAlert("TempHigh", "sda", NoDatetime),
               NewAlert("DiskFail", "sdb", NoDatetime),
               NewAlert("DiskFail", "sda", NoDatetime)>>),
          Raises,
          Unavailable}
    ELSE {Ok(<<>>),
          Ok(<<NewAlert("TempHigh", "cpu0", NoDatetime)>>)}

\* The key of Alert(AlertSourceRunFailedAlertClass, args=...): the source.
RunFailedAlert(klass, source_name) == NewAlert(klass, source_name, NoDatetime)

UniqueByKey_of_none(s) == s

\* The first alert of each key (lines 865-873).
RECURSIVE UniqueByKey(_)
UniqueByKey(s) ==
    IF s = <<>> THEN <<>>
    ELSE LET init == UniqueByKey(SubSeq(s, 1, Len(s) - 1))
             last == s[Len(s)]
         IN IF \E i \in DOMAIN init : init[i].key = last.key
            THEN init ELSE Append(init, last)

\* Lines 842-854: the sources whose last check raised.
RunSourceErrors(errors, source_name, outcome) ==
    CASE outcome.kind = "raise" -> errors \cup {source_name}
      [] outcome.kind = "ok" -> errors \ {source_name}
      [] OTHER -> errors

__run_source_drops_failure(source_name, outcome, d) ==
    [i \in DOMAIN UniqueByKey(outcome.alerts) |->
        [UniqueByKey(outcome.alerts)[i] EXCEPT !.source = source_name, !.obj = d]]

\* AlertService.__run_source after check() ended with outcome, at instant d:
\* the alerts returned (unavailable: the exception goes to the caller).
__run_source(source_name, outcome, d) ==
    LET alerts == IF outcome.kind = "raise"
                  THEN <<RunFailedAlert("AlertSourceRunFailed", source_name)>>
                  ELSE outcome.alerts
        unique_alerts == UniqueByKey(alerts)
    IN [i \in DOMAIN unique_alerts |->
          [unique_alerts[i] EXCEPT !.source = source_name, !.obj = d]]

\* IntervalSchedule.should_run
DatetimeMin == 0 - DayLen
should_run(interval, d, last_run) == d >= last_run + interval

\* ------------------------------------------------------------------ state
VARIABLES
    now,                    \* the clock: datetime.utcnow(), time.monotonic()
    node,                   \* self.node
    sys,                    \* system.state, system.product_type, failover.*
    alerts,                 \* self.alerts, the Alert Store
    policies,               \* self.policies
    alert_source_last_run,  \* self.alert_source_last_run
    alert_sources_errors,   \* self.alert_sources_errors
    sources_locks,          \* self.sources_locks (and self.blocked_sources)
    sources_run_times,      \* self.sources_run_times: total_count per source
    db,                     \* the rows of the table system.alert
    SEND_ALERTS_ON_READY,
    queue,                  \* the jobs waiting for their lock, oldest first
    pa,                     \* the process_alerts job: its place and locals
    sa,                     \* the send_alerts job
    oc,                     \* the oneshot_create job
    od,                     \* the oneshot_delete job
    sent,                   \* the send calls of the dispatch pass so far
    last_send,              \* the arguments of the send call awaited
    events,                 \* the alert.list events of the dispatch step
    op_events,              \* the alert.list events of the last dismiss or restore
    outbound,               \* the mails and the support ticket of the dispatch step
    removed                 \* the ids REMOVED events were sent for so far

vars == <<now, node, sys, alerts, policies, alert_source_last_run,
          alert_sources_errors, sources_locks, sources_run_times, db,
          SEND_ALERTS_ON_READY, queue, pa, sa, oc, od, sent, last_send, events,
          op_events, outbound, removed>>

\* The variables no job of the engine writes.
env == <<node, sys>>

\* What the backends and the clients have been told.
told == <<sent, last_send, events, op_events, outbound, removed>>

\* A stored alert as datastore.query returns it to initialize().
Loaded(n, source, klass, key, dismissed) ==
    [uuid |-> <<n, source, klass, key, 0>>, node |-> n, source |-> source,
     klass |-> klass, key |-> key, given |-> NoDatetime, datetime |-> 0,
     last_occurrence |-> 0, dismissed |-> dismissed, obj |-> 0]

\* The stores initialize() can load.
LoadedStores ==
    {<<Loaded("A", "disk", "DiskFail", "sda", FALSE),
       Loaded("B", "", "AppUpdate", "app1", FALSE)>>}

PolicyNames == {POLICIES[i] : i \in DOMAIN POLICIES}

SeededPolicies_with_nothing(loaded, d) == [p \in PolicyNames |-> NewPolicy]

\* Lines 278-285: every policy receives the loaded alerts.
SeededPolicies(loaded, d) ==
    [p \in PolicyNames |-> receive_alerts(p, NewPolicy, d, loaded).policy]

Idle == [pc |-> "idle"]

PaIdle ==
    [pc |-> "idle", idx |-> 0, valid_alerts |-> <<>>, alerts_a |-> <<>>,
     alerts_b |-> <<>>, outcome |-> None, peer_outcome |-> None,
     master_node |-> "A", backup_node |-> "B",
     run_on_backup_node |-> FALSE, run_failover_related |-> FALSE]

SaIdle ==
    [pc |-> "idle", now |-> 0, policy |-> 0, service |-> 0,
     gone_alerts |-> <<>>, new_alerts |-> <<>>]

\* error: the exception the last job of the method ended with.
OcIdle == [pc |-> "idle", klass |-> None, args |-> None, error |-> None]

OdIdle == [pc |-> "idle", idx |-> 0, error |-> None]

SingleNode ==
    [state |-> "READY", product_type |-> "SCALE", licensed |-> FALSE,
     failover_node |-> "A", status |-> "SINGLE", in_progress |-> FALSE,
     peer |-> [reachable |-> FALSE, same_version |-> FALSE,
               state |-> "READY", status |-> "BACKUP"],
     blocked_failover_alerts_until |-> 0]

NoSend == [alerts |-> <<>>, gone |-> <<>>, new |-> <<>>]

\* No mail was sent and no ticket was opened.
NoOutbound == [mail |-> <<>>, ticket_gone |-> <<>>, ticket_new |-> <<>>]

\* What flush_alerts inserts for an alert: the fields of the object.
Row(alert) == [alert EXCEPT !.obj = 0]
Rows(s) == [i \in DOMAIN s |-> Row(s[i])]

\* The state setup() leaves: initialize() has loaded a store at instant 0.
Init ==
    /\ now = 0
    /\ node = "A"
    /\ sys = SingleNode
    /\ alerts \in LoadedStores
    /\ policies = SeededPolicies(alerts, 0)
    /\ alert_source_last_run = [s \in DOMAIN ALERT_SOURCES |-> DatetimeMin]
    /\ alert_sources_errors = {}
    /\ sources_locks = <<>>
    /\ sources_run_times = [s \in DOMAIN ALERT_SOURCES |-> 0]
    /\ db = Rows(alerts)
    /\ SEND_ALERTS_ON_READY = FALSE
    /\ queue = <<>>
    /\ pa = PaIdle
    /\ sa = SaIdle
    /\ oc = OcIdle
    /\ od = OdIdle
    /\ sent = <<>>
    /\ last_send = NoSend
    /\ events = <<>>
    /\ op_events = <<>>
    /\ outbound = NoOutbound
    /\ removed = {}

\* -------------------------------------------------------------------- jobs
JobLock_of_its_own(method) ==
    IF method = "send_alerts" THEN "send_alerts" ELSE "process_alerts"

\* The lock each job method names in its @job decorator.
JobLock(method) ==
    CASE method = "process_alerts" -> "process_alerts"
      [] method = "send_alerts" -> "process_alerts"
      [] method = "oneshot_create" -> "process_alerts"
      [] method = "oneshot_delete" -> "process_alerts"

Methods == {"process_alerts", "send_alerts", "oneshot_create", "oneshot_delete"}

Pc(method) ==
    CASE method = "process_alerts" -> pa.pc
      [] method = "send_alerts" -> sa.pc
      [] method = "oneshot_create" -> oc.pc
      [] method = "oneshot_delete" -> od.pc

Running == {m \in Methods : Pc(m) # "idle"}

\* A job's lock is free when no running job holds a lock of that name.
LockFree(method) == \A m \in Running : JobLock(m) # JobLock(method)

\* A call of a job method: klass is the list of the class names it is given.
Request(method, klass, arg) == [method |-> method, klass |-> klass, arg |-> arg]

\* The job that runs next: the oldest waiting job whose lock is free.
NextJob ==
    IF \E i \in DOMAIN queue : LockFree(queue[i].method)
    THEN CHOOSE i \in DOMAIN queue :
            /\ LockFree(queue[i].method)
            /\ \A j \in 1..(i - 1) : ~LockFree(queue[j].method)
    ELSE 0

Dequeue(i) == SubSeq(queue, 1, i - 1) \o SubSeq(queue, i + 1, Len(queue))

\* A job starts: it leaves the queue at an instant later than any read so far.
Starts(method) ==
    /\ NextJob # 0
    /\ queue[NextJob].method = method
    /\ now < MaxNow
    /\ now' = now + 1

lock_queue_size_unset(method) == -1

\* The lock_queue_size each job method names in its @job decorator (-1: none).
lock_queue_size(method) == IF method = "process_alerts" THEN 1 ELSE -1

Pending(q, method) == {i \in DOMAIN q : q[i].method = method}

\* A job is added to the queue, unless its method has a lock_queue_size and
\* that many jobs of the method wait already.
Enqueue(q, request) ==
    IF /\ lock_queue_size(request.method) >= 0
       /\ Cardinality(Pending(q, request.method)) >= lock_queue_size(request.method)
    THEN q
    ELSE Append(q, request)

CallSendAlerts_is_lost(q) == q

\* self.middleware.call("alert.send_alerts"): the job is queued, not awaited.
CallSendAlerts(q) == Enqueue(q, Request("send_alerts", <<>>, None))

\* ------------------------------------------------------- the scheduling pass
__should_run_or_send_alerts_when_ready == sys.state = "READY"

\* AlertService.__should_run_or_send_alerts
__should_run_or_send_alerts ==
    IF sys.state # "READY" THEN FALSE
    ELSE IF sys.licensed /\ (sys.status = "BACKUP" \/ sys.in_progress) THEN FALSE
    ELSE TRUE

blocked_sources_none(locks, source_name) == {}

\* self.blocked_sources[source_name]: the lock tokens of the source.
blocked_sources(locks, source_name) ==
    {k \in DOMAIN locks : locks[k].source_name = source_name}

\* Lines 686-693: the source is run in this pass.
SourceIsDue(source_name, loc, last_run) ==
    /\ sys.product_type \in ALERT_SOURCES[source_name].products
    /\ ~(ALERT_SOURCES[source_name].failover_related /\ ~loc.run_failover_related)
    /\ should_run(ALERT_SOURCES[source_name].interval, now, last_run[source_name])

RunsOnPeer_whenever_the_source_mirrors(source_name, loc) ==
    ALERT_SOURCES[source_name].run_on_backup_node

\* Line 715: the source's alerts are also fetched from the peer.
RunsOnPeer(source_name, loc) ==
    loc.run_on_backup_node /\ ALERT_SOURCES[source_name].run_on_backup_node

StoredFor(store, n, source_name) ==
    SelectSeq(store, LAMBDA a : a.node = n /\ a.source = source_name)

SetNode(s, n) == [i \in DOMAIN s |-> [s[i] EXCEPT !.node = n]]

FinishSource_replaces_the_store(source_name, alerts_a, alerts_b, st, loc) ==
    LET observed == alerts_a \o SetNode(alerts_b, loc.backup_node)
        handled == [i \in DOMAIN observed |->
                        __handle_alert(observed[i], st.alerts, now)]
    IN [st EXCEPT
          !.alerts = handled,
          !.policies = [p \in PolicyNames |->
                [st.policies[p] EXCEPT !.last_key_value_alerts =
                    Propagate(@, Range(handled))]]]

\* Lines 750-760: the alerts of the source are reconciled with the store and
\* replace the source's entries.  st holds the store and the policies.
FinishSource(source_name, alerts_a, alerts_b, st, loc) ==
    LET observed == alerts_a \o SetNode(alerts_b, loc.backup_node)
        handled == [i \in DOMAIN observed |->
                        __handle_alert(observed[i], st.alerts, now)]
    IN [st EXCEPT
          !.alerts = SelectSeq(st.alerts, LAMBDA a : a.source # source_name)
                        \o handled,
          !.policies = [p \in PolicyNames |->
                [st.policies[p] EXCEPT !.last_key_value_alerts =
                    Propagate(@, Range(handled))]]]

\* The loop of __run_alerts from the i-th source up to its next await: the
\* check of a source that is due and not blocked, or, the sources done, the
\* second __should_run_or_send_alerts of process_alerts (after
\* __expire_alerts).
RECURSIVE RunFrom(_, _, _)
RunFrom_marks_what_it_runs(i, st, loc) ==
    IF i > Len(SourceNames)
    THEN [st EXCEPT !.alerts = __expire_alerts(@, now), !.pc = "recheck"]
    ELSE LET name == SourceNames[i]
             st1 == [st EXCEPT !.last_run[name] = now]
             alerts_a == StoredFor(st.alerts, loc.master_node, name)
             alerts_b == IF RunsOnPeer(name, loc)
                         THEN StoredFor(st.alerts, loc.backup_node, name)
                         ELSE <<>>
         IN IF ~SourceIsDue(name, loc, st.last_run)
            THEN RunFrom(i + 1, st, loc)
            ELSE IF blocked_sources(st.locks, name) # {}
            THEN RunFrom(i + 1,
                         FinishSource(name, SetNode(alerts_a, loc.master_node),
                                      alerts_b, st, loc),
                         loc)
            ELSE [st1 EXCEPT !.pc = "check", !.idx = i, !.alerts_a = alerts_a]

RunFrom(i, st, loc) ==
    IF i > Len(SourceNames)
    THEN [st EXCEPT !.alerts = __expire_alerts(@, now), !.pc = "recheck"]
    ELSE LET name == SourceNames[i]
             st1 == [st EXCEPT !.last_run[name] = now]
             alerts_a == StoredFor(st.alerts, loc.master_node, name)
             alerts_b == IF RunsOnPeer(name, loc)
                         THEN StoredFor(st.alerts, loc.backup_node, name)
                         ELSE <<>>
         IN IF ~SourceIsDue(name, loc, st.last_run)
            THEN RunFrom(i + 1, st, loc)
            ELSE IF blocked_sources(st.locks, name) # {}
            THEN RunFrom(i + 1,
                         FinishSource(name, SetNode(alerts_a, loc.master_node),
                                      alerts_b, st1, loc),
                         loc)
            ELSE [st1 EXCEPT !.pc = "check", !.idx = i, !.alerts_a = alerts_a]

PassState(locks) ==
    [alerts |-> alerts, policies |-> policies, last_run |-> alert_source_last_run,
     locks |-> locks, pc |-> pa.pc, idx |-> pa.idx, alerts_a |-> <<>>]

\* The pass goes on from state st; outcome and peer_outcome tell how the
\* check and the call of the peer it waited for have ended.
Continue(st, outcome, peer_outcome) ==
    /\ alerts' = st.alerts
    /\ policies' = st.policies
    /\ alert_source_last_run' = st.last_run
    /\ pa' = [pa EXCEPT !.pc = st.pc, !.idx = st.idx, !.alerts_a = st.alerts_a,
                        !.alerts_b = <<>>, !.outcome = outcome,
                        !.peer_outcome = peer_outcome]

\* process_alerts, lines 479-483: the job starts; the preconditions hold and
\* the store is copied, or the job returns.
process_alerts_start ==
    /\ Starts("process_alerts")
    /\ queue' = Dequeue(NextJob)
    /\ pa' = IF __should_run_or_send_alerts
             THEN [PaIdle EXCEPT !.pc = "run_alerts", !.valid_alerts = alerts]
             ELSE PaIdle
    /\ UNCHANGED <<env, db, alerts, policies, alert_source_last_run,
                   alert_sources_errors, sources_run_times, sources_locks, SEND_ALERTS_ON_READY,
                   sa, oc, od, told>>

\* __run_alerts, lines 657-683, and its loop up to the first check.
run_alerts_start ==
    /\ pa.pc = "run_alerts"
    /\ LET enterprise == sys.product_type = "SCALE_ENTERPRISE"
           ha == enterprise /\ sys.licensed
           loc == [master_node |-> IF ha /\ sys.failover_node = "B" THEN "B" ELSE "A",
                   backup_node |-> IF ha /\ sys.failover_node = "B" THEN "A" ELSE "B",
                   run_on_backup_node |->
                        /\ ha
                        /\ sys.peer.reachable
                        /\ sys.peer.same_version
                        /\ sys.peer.state = "READY"
                        /\ sys.peer.status = "BACKUP",
                   run_failover_related |->
                        enterprise /\ now > sys.blocked_failover_alerts_until]
           locks == [k \in {t \in DOMAIN sources_locks :
                                sources_locks[t].expires_at > now} |->
                        sources_locks[k]]
           st == RunFrom(1, PassState(locks), loc)
       IN /\ sources_locks' = locks
          /\ alerts' = st.alerts
          /\ policies' = st.policies
          /\ alert_source_last_run' = st.last_run
          /\ pa' = [pa EXCEPT !.pc = st.pc, !.idx = st.idx,
                              !.alerts_a = st.alerts_a,
                              !.master_node = loc.master_node,
                              !.backup_node = loc.backup_node,
                              !.run_on_backup_node = loc.run_on_backup_node,
                              !.run_failover_related = loc.run_failover_related]
    /\ UNCHANGED <<now, env, db, alert_sources_errors, sources_run_times, SEND_ALERTS_ON_READY, queue,
                   sa, oc, od, told>>

LocalAlerts_of_a_failed_check(name, outcome, stored) ==
    __run_source(name, IF outcome.kind = "unavailable" THEN Raises ELSE outcome, now)

\* Lines 697-710: alerts_a after __run_source; stored is the list of line 697,
\* which UnavailableException leaves as it is.
LocalAlerts(name, outcome, stored) ==
    IF outcome.kind = "unavailable"
    THEN stored
    ELSE __run_source(name, outcome, now)

\* Lines 707-713: the check of the source returns.  Without a peer to ask the
\* source is finished and the loop goes on.
source_check_returns ==
    /\ pa.pc = "check"
    /\ \E outcome \in CheckOutcomes(SourceNames[pa.idx]) :
        LET name == SourceNames[pa.idx]
            alerts_a == SetNode(LocalAlerts(name, outcome, pa.alerts_a),
                                pa.master_node)
        IN /\ alert_sources_errors' = RunSourceErrors(alert_sources_errors, name, outcome)
           /\ sources_run_times' = [sources_run_times EXCEPT ![name] = @ + 1]
           /\ IF RunsOnPeer(name, pa)
              THEN /\ pa' = [pa EXCEPT !.pc = "peer", !.alerts_a = alerts_a,
                               !.alerts_b = StoredFor(alerts, pa.backup_node, name),
                               !.outcome = outcome.kind, !.peer_outcome = None]
                   /\ UNCHANGED <<alerts, policies, alert_source_last_run>>
              ELSE Continue(RunFrom(pa.idx + 1,
                       FinishSource(name, alerts_a, <<>>,
                                    PassState(sources_locks), pa),
                       pa), outcome.kind, None)
    /\ UNCHANGED <<now, env, db, sources_locks, SEND_ALERTS_ON_READY, queue, sa, oc,
                   od, told>>

\* What failover.call_remote("alert.run_source") can do: return the peer's
\* alerts, fail with a network error or the peer's "unavailable", fail to
\* reserve a port, or fail otherwise.
PeerOutcomes(source_name) ==
    {Ok(<<>>),
     Ok(<<NewAlert("DiskFail", "sda", NoDatetime)>>),
     [kind |-> "network", alerts |-> <<>>],
     [kind |-> "reserve_fd", alerts |-> <<>>],
     Raises}

PeerAlerts_of_a_call_that_fails(name, outcome, stored) ==
    IF outcome.kind = "ok"
    THEN [i \in DOMAIN outcome.alerts |->
            [outcome.alerts[i] EXCEPT !.source = name, !.obj = now]]
    ELSE <<[RunFailedAlert("AlertSourceRunFailedOnBackupNode", name)
                EXCEPT !.source = name, !.obj = now]>>

\* Lines 720-748: alerts_b after the call of the peer; stored is the list of
\* line 716.
PeerAlerts(name, outcome, stored) ==
    CASE outcome.kind = "ok" ->
            [i \in DOMAIN outcome.alerts |->
                [outcome.alerts[i] EXCEPT !.source = name, !.obj = now]]
      [] outcome.kind = "raise" ->
            <<[RunFailedAlert("AlertSourceRunFailedOnBackupNode", name)
                EXCEPT !.source = name, !.obj = now]>>
      [] OTHER -> stored

\* Lines 720-760: the call of the peer returns, the source is finished and
\* the loop goes on.
peer_call_returns ==
    /\ pa.pc = "peer"
    /\ \E outcome \in PeerOutcomes(SourceNames[pa.idx]) :
        LET name == SourceNames[pa.idx]
            alerts_b == PeerAlerts(name, outcome, pa.alerts_b)
        IN Continue(RunFrom(pa.idx + 1,
                    FinishSource(name, pa.alerts_a, alerts_b,
                                 PassState(sources_locks), pa),
                    pa), pa.outcome, outcome.kind)
    /\ UNCHANGED <<now, env, db, alert_sources_errors, sources_run_times, sources_locks,
                   SEND_ALERTS_ON_READY, queue, sa, oc, od, told>>

Copies_of_the_store(s) == alerts

\* The copies of copy.deepcopy become the store: objects of their own.
Copies(s) == [i \in DOMAIN s |-> [s[i] EXCEPT !.obj = 0 - (now + 2)]]

\* process_alerts, lines 488-492.
process_alerts_end ==
    /\ pa.pc = "recheck"
    /\ IF ~__should_run_or_send_alerts
       THEN /\ alerts' = Copies(pa.valid_alerts)
            /\ UNCHANGED queue
       ELSE /\ queue' = CallSendAlerts(queue)
            /\ UNCHANGED alerts
    /\ pa' = PaIdle
    /\ UNCHANGED <<now, env, db, policies, alert_source_last_run,
                   alert_sources_errors, sources_run_times, sources_locks, SEND_ALERTS_ON_READY,
                   sa, oc, od, told>>

\* @periodic(60): the timer fires and process_alerts is called.
periodic_process_alerts ==
    /\ Len(queue) < MaxTriggers
    /\ queue' = Enqueue(queue, Request("process_alerts", <<>>, None))
    /\ UNCHANGED <<now, env, db, alerts, policies, alert_source_last_run,
                   alert_sources_errors, sources_run_times, sources_locks, SEND_ALERTS_ON_READY,
                   pa, sa, oc, od, told>>

\* --------------------------------------------------------- the dispatch pass
\* The enabled rows of system.alertservice, in the order of the query, and
\* the backend types that exist.  A backend whose attributes are "invalid"
\* fails to be built.
AlertServices ==
    <<[type |-> "Gone", level |-> "INFO", attributes |-> "valid"],
      [type |-> "Mail", level |-> "INFO", attributes |-> "invalid"],
      [type |-> "Mail", level |-> "INFO", attributes |-> "valid"],
      [type |-> "Slack", level |-> "CRITICAL", attributes |-> "valid"]>>
ALERT_SERVICES_FACTORIES == {"Mail", "Slack"}

RemoveAt(s, i) == SubSeq(s, 1, i - 1) \o SubSeq(s, i + 1, Len(s))

\* list.remove(x): without the first element equal to x.
Remove(s, x) ==
    IF \E i \in DOMAIN s : s[i] = x
    THEN RemoveAt(s, CHOOSE i \in DOMAIN s :
                        s[i] = x /\ \A j \in 1..(i - 1) : s[j] # x)
    ELSE s

SameClassAndKey(a, b) == a.klass = b.klass /\ a.key = b.key

CancelChurn_none(i, copy, gone, new) == [gone |-> gone, new |-> new]

\* Lines 538-543, from the i-th alert of the copy of the gone list on.
RECURSIVE CancelChurn(_, _, _, _)
CancelChurn(i, copy, gone, new) ==
    IF i > Len(copy) THEN [gone |-> gone, new |-> new]
    ELSE IF \E j \in DOMAIN new : SameClassAndKey(copy[i], new[j])
    THEN LET j == CHOOSE j \in DOMAIN new :
                    /\ SameClassAndKey(copy[i], new[j])
                    /\ \A k \in 1..(j - 1) : ~SameClassAndKey(copy[i], new[k])
         IN CancelChurn(i + 1, copy, Remove(gone, copy[i]), Remove(new, new[j]))
    ELSE CancelChurn(i + 1, copy, gone, new)

Passes(alert, desc) ==
    /\ sys.product_type \in class_by_name[alert.klass].products
    /\ get_alert_level(alert) >= AlertLevel[desc.level]

ServiceLists_under_every_policy(desc, policy_name) ==
    LET service_gone_alerts == SelectSeq(sa.gone_alerts, LAMBDA a : Passes(a, desc))
        service_new_alerts == SelectSeq(sa.new_alerts, LAMBDA a : Passes(a, desc))
        left == CancelChurn(1, service_gone_alerts, service_gone_alerts,
                            service_new_alerts)
    IN [alerts |-> SelectSeq(alerts, LAMBDA a :
                        Passes(a, desc) /\ get_alert_policy(a) # "NEVER"),
        gone |-> left.gone,
        new |-> left.new]

\* Lines 514-543: what the service is to be told under the policy.
ServiceLists(desc, policy_name) ==
    LET service_gone_alerts ==
            SelectSeq(sa.gone_alerts, LAMBDA a :
                Passes(a, desc) /\ get_alert_policy(a) = policy_name)
        service_new_alerts ==
            SelectSeq(sa.new_alerts, LAMBDA a :
                Passes(a, desc) /\ get_alert_policy(a) = policy_name)
        left == CancelChurn(1, service_gone_alerts, service_gone_alerts,
                            service_new_alerts)
    IN [alerts |-> SelectSeq(alerts, LAMBDA a :
                        Passes(a, desc) /\ get_alert_policy(a) # "NEVER"),
        gone |-> left.gone,
        new |-> left.new]

NotDismissed_all(s) == s

\* [alert for alert in ... if not alert.dismissed]
NotDismissed(s) == SelectSeq(s, LAMBDA a : ~a.dismissed)

\* Lines 560-562: the three arguments of send.
SendArgs(desc, policy_name) ==
    LET l == ServiceLists(desc, policy_name)
    IN [alerts |-> NotDismissed(l.alerts),
        gone |-> NotDismissed(l.gone),
        new |-> NotDismissed(l.new)]

Sends_what_is_left(desc, policy_name) ==
    LET args == SendArgs(desc, policy_name)
    IN /\ desc.type \in ALERT_SERVICES_FACTORIES
       /\ desc.attributes # "invalid"
       /\ (args.alerts # <<>> \/ args.gone # <<>> \/ args.new # <<>>)

\* Lines 545-564: the backend of the service is built and its send is called.
Sends(desc, policy_name) ==
    LET l == ServiceLists(desc, policy_name)
        args == SendArgs(desc, policy_name)
    IN /\ ~(l.gone = <<>> /\ l.new = <<>>)
       /\ desc.type \in ALERT_SERVICES_FACTORIES
       /\ desc.attributes # "invalid"
       /\ (args.alerts # <<>> \/ args.gone # <<>> \/ args.new # <<>>)

AfterSend_raises(k, result) ==
    IF result = "error" THEN Len(AlertServices) + 1 ELSE k + 1

\* Lines 565-568: send has returned or raised; the exception is logged and
\* the loop goes on with the service after the k-th.
AfterSend(k, result) == k + 1

\* The first service from the k-th on whose send is called (0: none is).
NextSend(k) ==
    IF \E i \in k..Len(AlertServices) : Sends(AlertServices[i], POLICIES[sa.policy])
    THEN CHOOSE i \in k..Len(AlertServices) :
            /\ Sends(AlertServices[i], POLICIES[sa.policy])
            /\ \A j \in k..(i - 1) : ~Sends(AlertServices[j], POLICIES[sa.policy])
    ELSE 0

\* Line 508 for the i-th policy, up to the query of the services.
ReceiveFor(i, d) ==
    LET r == receive_alerts(POLICIES[i], policies[POLICIES[i]], d, alerts)
    IN /\ policies' = [policies EXCEPT ![POLICIES[i]] = r.policy]
       /\ sa' = [pc |-> "services", now |-> d, policy |-> i, service |-> 1,
                 gone_alerts |-> r.gone_alerts, new_alerts |-> r.new_alerts]

\* send_alerts, lines 496-510: the job starts; the system is READY and the
\* first policy receives the store, or the dispatch is put off.
send_alerts_start ==
    /\ Starts("send_alerts")
    /\ queue' = Dequeue(NextJob)
    /\ IF sys.state # "READY"
       THEN /\ SEND_ALERTS_ON_READY' = TRUE
            /\ UNCHANGED <<policies, sa, told>>
       ELSE /\ ReceiveFor(1, now')
            /\ UNCHANGED <<SEND_ALERTS_ON_READY, told>>
    /\ UNCHANGED <<env, db, alerts, alert_source_last_run, alert_sources_errors, sources_run_times,
                   sources_locks, pa, oc, od>>

\* Lines 510-568: the services up to the next one whose send is called, and
\* that call, which succeeds or raises.
send_alerts_service ==
    /\ sa.pc = "services"
    /\ NextSend(sa.service) # 0
    /\ \E result \in {"ok", "error"} :
        LET k == NextSend(sa.service)
            args == SendArgs(AlertServices[k], POLICIES[sa.policy])
        IN /\ sent' = Append(sent, [policy |-> POLICIES[sa.policy], service |-> k,
                                    result |-> result])
           /\ last_send' = args
           /\ sa' = [sa EXCEPT !.service = AfterSend(k, result)]
    /\ UNCHANGED <<events, op_events, outbound, removed>>
    /\ UNCHANGED <<now, env, db, alerts, policies, alert_source_last_run,
                   alert_sources_errors, sources_run_times, sources_locks, SEND_ALERTS_ON_READY,
                   queue, pa, oc, od>>

Event(name, alert) == [name |-> name, id |-> alert.uuid]

\* The ids of the REMOVED events of a list of events.
RemovedIds(evs) == {evs[i].id : i \in {j \in DOMAIN evs : evs[j].name = "REMOVED"}}

\* Lines 570-579: the events of the IMMEDIATELY policy.
AlertListEvents(gone_alerts, new_alerts) ==
    LET shown(s) == SelectSeq(s, LAMBDA a : should_show_alert(a, sys.product_type))
    IN [i \in DOMAIN shown(gone_alerts) |-> Event("REMOVED", shown(gone_alerts)[i])]
       \o [i \in DOMAIN shown(new_alerts) |-> Event("ADDED", shown(new_alerts)[i])]

\* Alert.mail: the check of disk attaches a mail to the alert of a failed
\* disk; no other alert of the model carries one.
HasMail(alert) == alert.source = "disk" /\ alert.klass = "DiskFail"

\* Lines 581-583: the alerts whose mail is given to mail.send.
MailsSent(new_alerts) == SelectSeq(new_alerts, LAMBDA a : HasMail(a))

\* Lines 589-590, 598-599: the class asks for proactive support and the
\* configuration of the class does not switch it off.
ProactiveSupport(alert) ==
    /\ class_by_name[alert.klass].proactive_support
    /\ alert.klass \in DOMAIN classes.proactive_support
            => classes.proactive_support[alert.klass]

\* Lines 585-616: the alerts listed in the ticket, when the product is the
\* enterprise one and support is available and enabled.
Ticket(gone_alerts, new_alerts, available) ==
    IF sys.product_type = "SCALE_ENTERPRISE" /\ available
    THEN [gone |-> SelectSeq(gone_alerts, LAMBDA a :
                        /\ ProactiveSupport(a)
                        /\ class_by_name[a.klass].proactive_support_notify_gone),
          new |-> SelectSeq(new_alerts, LAMBDA a : ProactiveSupport(a))]
    ELSE [gone |-> <<>>, new |-> <<>>]

\* Lines 581-616 for the two lists of the IMMEDIATELY policy.
Outbound(gone_alerts, new_alerts, available) ==
    [mail |-> MailsSent(new_alerts),
     ticket_gone |-> Ticket(gone_alerts, new_alerts, available).gone,
     ticket_new |-> Ticket(gone_alerts, new_alerts, available).new]

\* No service is left for the policy: the events of the policy are sent and
\* the next policy receives the store, or the job ends.
send_alerts_next_policy ==
    /\ sa.pc = "services"
    /\ NextSend(sa.service) = 0
    /\ \E available \in BOOLEAN :
        outbound' = IF POLICIES[sa.policy] = "IMMEDIATELY"
                    THEN Outbound(sa.gone_alerts, sa.new_alerts, available)
                    ELSE NoOutbound
    /\ IF sa.policy < Len(POLICIES)
       THEN ReceiveFor(sa.policy + 1, sa.now) /\ UNCHANGED sent
       ELSE sa' = SaIdle /\ sent' = <<>> /\ UNCHANGED policies
    /\ last_send' = NoSend
    /\ events' = IF POLICIES[sa.policy] = "IMMEDIATELY"
                 THEN AlertListEvents(sa.gone_alerts, sa.new_alerts)
                 ELSE <<>>
    /\ removed' = removed \cup RemovedIds(events')
    /\ UNCHANGED <<op_events, now, env, db, alerts, alert_source_last_run,
                   alert_sources_errors, sources_run_times, sources_locks, SEND_ALERTS_ON_READY,
                   queue, pa, oc, od>>

\* ----------------------------------------------------------------------- list
\* The classes in the order of their titles.
TitleOrder ==
    <<"AlertSourceRunFailed", "AlertSourceRunFailedOnBackupNode", "AppUpdate",
      "DiskFail", "AutomaticAlertFailed", "TempHigh">>

\* The key list() sorts by: (-level, title, datetime).
SortKey(alert) ==
    <<0 - get_alert_level(alert),
      CHOOSE i \in DOMAIN TitleOrder : TitleOrder[i] = alert.klass,
      alert.datetime>>

KeyLess(x, y) ==
    \/ x[1] < y[1]
    \/ x[1] = y[1] /\ x[2] < y[2]
    \/ x[1] = y[1] /\ x[2] = y[2] /\ x[3] < y[3]

\* The sorted list init with x after the elements that are not greater.
InsertSorted(init, x) ==
    LET k == Cardinality({i \in DOMAIN init : ~KeyLess(SortKey(x), SortKey(init[i]))})
    IN SubSeq(init, 1, k) \o <<x>> \o SubSeq(init, k + 1, Len(init))

\* sorted(s, key=SortKey): a stable sort.
RECURSIVE Sorted(_)
Sorted(s) ==
    IF s = <<>> THEN <<>>
    ELSE InsertSorted(Sorted(SubSeq(s, 1, Len(s) - 1)), s[Len(s)])

\* AlertSerializer.serialize
serialize(alert) ==
    [id |-> alert.uuid, uuid |-> alert.uuid, node |-> alert.node,
     source |-> alert.source, klass |-> alert.klass, key |-> alert.key,
     datetime |-> alert.datetime, last_occurrence |-> alert.last_occurrence,
     dismissed |-> alert.dismissed,
     level |-> IF alert.klass \in DOMAIN classes.level
               THEN classes.level[alert.klass]
               ELSE class_by_name[alert.klass].level,
     one_shot |-> /\ class_by_name[alert.klass].one_shot
                  /\ ~class_by_name[alert.klass].deleted_automatically]

\* AlertService.list: what a call returns in the current state.
list ==
    LET shown == SelectSeq(Sorted(alerts),
                           LAMBDA a : should_show_alert(a, sys.product_type))
    IN [i \in DOMAIN shown |-> serialize(shown[i])]

\* ------------------------------------------------------- dismiss and restore
\* AlertService.__alert_by_uuid (<<>>: None)
__alert_by_uuid(uuid) == SelectSeq(alerts, LAMBDA a : a.uuid = uuid)

\* The uuids a caller can pass: those of the store and one of no alert.
NoSuchUuid == <<"A", "", "AppUpdate", "none", 0>>
Uuids == {alerts[i].uuid : i \in DOMAIN alerts} \cup {NoSuchUuid}

\* An assignment to fields of objects: every list that refers to one of the
\* objects shows it.  The copies of process_alerts and the arguments already
\* passed to a backend are other objects.
Assign(objs) ==
    /\ policies' = [p \in PolicyNames |->
            [policies[p] EXCEPT !.last_key_value_alerts = Propagate(@, objs)]]
    /\ pa' = [pa EXCEPT !.alerts_a = Propagate(@, objs),
                        !.alerts_b = Propagate(@, objs)]
    /\ sa' = [sa EXCEPT !.gone_alerts = Propagate(@, objs),
                        !.new_alerts = Propagate(@, objs)]
    /\ UNCHANGED od

ChangedEvent_of_any_alert(alert) == <<Event("CHANGED", alert)>>

\* AlertService._send_alert_changed_event
ChangedEvent(alert) ==
    IF should_show_alert(alert, sys.product_type)
    THEN <<Event("CHANGED", alert)>>
    ELSE <<>>

DeleteOnDismiss_from_the_store(deleted) ==
    /\ alerts' = SelectSeq(alerts, LAMBDA a : \A i \in DOMAIN deleted : a # deleted[i])
    /\ op_events' = [i \in DOMAIN deleted |-> Event("REMOVED", deleted[i])]
    /\ UNCHANGED <<policies, pa, sa, od>>

\* AlertService._delete_on_dismiss for each alert of the list deleted.
DeleteOnDismiss(deleted) ==
    /\ alerts' = SelectSeq(alerts, LAMBDA a : \A i \in DOMAIN deleted : a # deleted[i])
    /\ op_events' = [i \in DOMAIN deleted |-> Event("REMOVED", deleted[i])]
    /\ policies' = [p \in PolicyNames |->
            [policies[p] EXCEPT !.last_key_value_alerts =
                SelectSeq(@, LAMBDA a :
                    \A i \in DOMAIN deleted : a.uuid # deleted[i].uuid)]]
    /\ UNCHANGED <<pa, sa, od>>

\* AlertService.dismiss, called with uuid
Dismiss(uuid) ==
        /\ now < MaxNow
        /\ now' = now + 1
        /\ LET found == __alert_by_uuid(uuid)
               alert == found[1]
           IN IF found = <<>>
              THEN /\ op_events' = <<>>
                   /\ UNCHANGED <<alerts, policies, pa, sa, od>>
              ELSE IF class_by_name[alert.klass].dismissable
              THEN DeleteOnDismiss(SelectSeq(alerts, LAMBDA a :
                        a.node = alert.node /\ a.klass = alert.klass /\ a = alert))
              ELSE IF /\ class_by_name[alert.klass].one_shot
                      /\ ~class_by_name[alert.klass].deleted_automatically
              THEN DeleteOnDismiss(<<alert>>)
              ELSE /\ alerts' = Propagate(alerts, {[alert EXCEPT !.dismissed = TRUE]})
                   /\ Assign({[alert EXCEPT !.dismissed = TRUE]})
                   /\ op_events' = ChangedEvent([alert EXCEPT !.dismissed = TRUE])
        /\ removed' = removed \cup RemovedIds(op_events')
        /\ UNCHANGED <<env, db, alert_source_last_run, alert_sources_errors, sources_run_times,
                       sources_locks, SEND_ALERTS_ON_READY, queue, oc,
                       sent, last_send, events, outbound>>

dismiss == \E uuid \in Uuids : Dismiss(uuid)

\* AlertService.restore, called with uuid
Restore(uuid) ==
        /\ now < MaxNow
        /\ now' = now + 1
        /\ LET found == __alert_by_uuid(uuid)
               alert == found[1]
           IN IF found = <<>>
              THEN /\ op_events' = <<>>
                   /\ UNCHANGED <<alerts, policies, pa, sa, od>>
              ELSE /\ alerts' = Propagate(alerts, {[alert EXCEPT !.dismissed = FALSE]})
                   /\ Assign({[alert EXCEPT !.dismissed = FALSE]})
                   /\ op_events' = ChangedEvent([alert EXCEPT !.dismissed = FALSE])
        /\ UNCHANGED <<env, db, alert_source_last_run, alert_sources_errors, sources_run_times,
                       sources_locks, SEND_ALERTS_ON_READY, queue, oc,
                       sent, last_send, events, outbound, removed>>

restore == \E uuid \in Uuids : Restore(uuid)

\* ------------------------------------------------------- one-shot operations
\* The calls of oneshot_create and of oneshot_delete made from outside:
\* <<klass, args>> and <<klass, query>>.
CreateCalls ==
    {<<"AppUpdate", "app1">>, <<"AppUpdate", "app2">>, <<"DiskFail", "sda">>}
DeleteCalls ==
    {<<<<"AppUpdate">>, "app1">>,
     <<<<"AutomaticAlertFailed", "AppUpdate">>, None>>,
     <<<<"AppUpdate", "NoSuchClass">>, None>>}

\* A call from outside queues a job.
oneshot_create_call ==
    /\ Len(queue) < MaxQueue
    /\ \E c \in CreateCalls :
            queue' = Enqueue(queue, Request("oneshot_create", <<c[1]>>, c[2]))
    /\ UNCHANGED <<now, env, db, alerts, policies, alert_source_last_run,
                   alert_sources_errors, sources_run_times, sources_locks, SEND_ALERTS_ON_READY,
                   pa, sa, oc, od, told>>

oneshot_delete_call ==
    /\ Len(queue) < MaxQueue
    /\ \E c \in DeleteCalls :
            queue' = Enqueue(queue, Request("oneshot_delete", c[1], c[2]))
    /\ UNCHANGED <<now, env, db, alerts, policies, alert_source_last_run,
                   alert_sources_errors, sources_run_times, sources_locks, SEND_ALERTS_ON_READY,
                   pa, sa, oc, od, told>>

\* klass(self.middleware).create(args) of a one-shot class: an alert whose
\* key is args.
CreateHook(klass, args) == NewAlert(klass, args, NoDatetime)

\* klass(self.middleware).delete(alerts, query): the alerts the query does
\* not name; all of them are named by the query None.
DeleteHook(related_alerts, query) ==
    IF query = None THEN <<>>
    ELSE SelectSeq(related_alerts, LAMBDA a : a.key # query)

ReplaceByUuid_appends(store, alert) == Append(store, alert)

\* Line 928: the alert takes the place of the entry of its uuid, at the end.
ReplaceByUuid(store, alert) ==
    Append(SelectSeq(store, LAMBDA a : a.uuid # alert.uuid), alert)

\* Lines 909-915 and 958-964: the name is not that of a registered class, or
\* the class is not a one-shot class.
InvalidClass(klassname) ==
    IF klassname \notin ClassNames THEN TRUE
    ELSE ~class_by_name[klassname].one_shot

\* oneshot_create, lines 909-917: the job starts; the class is one-shot and
\* its create hook is called, or the job raises CallError.
oneshot_create_start ==
    /\ Starts("oneshot_create")
    /\ queue' = Dequeue(NextJob)
    /\ LET r == queue[NextJob]
       IN oc' = IF InvalidClass(r.klass[1])
                THEN [OcIdle EXCEPT !.error = "CallError"]
                ELSE [pc |-> "create", klass |-> r.klass[1], args |-> r.arg,
                      error |-> None]
    /\ UNCHANGED <<env, db, alerts, policies, alert_source_last_run,
                   alert_sources_errors, sources_run_times, sources_locks, SEND_ALERTS_ON_READY,
                   pa, sa, od, told>>

\* oneshot_create, lines 917-930.
oneshot_create_end ==
    /\ oc.pc = "create"
    /\ LET created == [CreateHook(oc.klass, oc.args) EXCEPT
                            !.source = "", !.node = node, !.obj = now]
           alert == __handle_alert(created, alerts, now)
       IN alerts' = ReplaceByUuid(alerts, alert)
    /\ queue' = CallSendAlerts(queue)
    /\ oc' = OcIdle
    /\ UNCHANGED <<now, env, db, policies, alert_source_last_run,
                   alert_sources_errors, sources_run_times, sources_locks, SEND_ALERTS_ON_READY,
                   pa, sa, od, told>>

related_alerts_of_the_class(store, klassname) ==
    SelectSeq(store, LAMBDA a : a.klass = klassname)

\* Lines 966-967: the alerts of the local node and the class.
related_alerts(store, klassname) ==
    SelectSeq(store, LAMBDA a : a.node = node /\ a.klass = klassname)

\* Lines 969-972: self.alerts.remove for each alert of the list.
RECURSIVE RemoveAll(_, _)
RemoveAll(s, deleted) ==
    IF deleted = <<>> THEN s
    ELSE RemoveAll(Remove(s, deleted[1]), Tail(deleted))

\* Lines 957-972: the loop of oneshot_delete from the i-th class name on.  A
\* delete hook returns without waiting for anything, so the loop runs to its
\* end, or to the name that raises CallError, in one step.
RECURSIVE DeleteFrom(_, _, _, _)
DeleteFrom(klasses, i, query, st) ==
    IF i > Len(klasses) THEN st
    ELSE IF InvalidClass(klasses[i]) THEN [st EXCEPT !.error = "CallError"]
    ELSE LET related == related_alerts(st.alerts, klasses[i])
             left_alerts == DeleteHook(related, query)
             gone == SelectSeq(related, LAMBDA a :
                        \A k \in DOMAIN left_alerts : left_alerts[k] # a)
         IN DeleteFrom(klasses, i + 1, query,
                       [st EXCEPT !.alerts = RemoveAll(@, gone),
                                  !.deleted = @ \/ gone # <<>>])

\* oneshot_delete, lines 951-980: the job starts and runs its loop; then it
\* calls flush_alerts, or returns, or has raised CallError.
oneshot_delete_start ==
    /\ Starts("oneshot_delete")
    /\ queue' = Dequeue(NextJob)
    /\ LET r == queue[NextJob]
           st == DeleteFrom(r.klass, 1, r.arg,
                            [alerts |-> alerts, deleted |-> FALSE, error |-> None])
       IN /\ alerts' = st.alerts
          /\ od' = IF st.error = None /\ st.deleted
                   THEN [OdIdle EXCEPT !.pc = "flush"]
                   ELSE [OdIdle EXCEPT !.error = st.error]
    /\ UNCHANGED <<env, db, policies, alert_source_last_run,
                   alert_sources_errors, sources_run_times, sources_locks, SEND_ALERTS_ON_READY,
                   pa, sa, oc, told>>

\* flush_alerts, lines 883-887: nothing is written on the BACKUP node of a
\* licensed pair; otherwise the rows of the table are deleted.
flush_alerts_start ==
    /\ od.pc = "flush"
    /\ IF sys.licensed /\ sys.status = "BACKUP"
       THEN /\ od' = [od EXCEPT !.pc = "flushed"]
            /\ UNCHANGED db
       ELSE /\ od' = [od EXCEPT !.pc = "insert", !.idx = 1]
            /\ db' = <<>>
    /\ UNCHANGED <<now, env, alerts, policies, alert_source_last_run,
                   alert_sources_errors, sources_run_times, sources_locks, SEND_ALERTS_ON_READY,
                   queue, pa, sa, oc, told>>

\* flush_alerts, lines 889-893: the next alert of the store is inserted.
flush_alerts_insert ==
    /\ od.pc = "insert"
    /\ od.idx <= Len(alerts)
    /\ db' = Append(db, Row(alerts[od.idx]))
    /\ od' = [od EXCEPT !.idx = @ + 1]
    /\ UNCHANGED <<now, env, alerts, policies, alert_source_last_run,
                   alert_sources_errors, sources_run_times, sources_locks, SEND_ALERTS_ON_READY,
                   queue, pa, sa, oc, told>>

\* oneshot_delete, lines 980-982: flush_alerts has returned.
oneshot_delete_end ==
    /\ \/ od.pc = "flushed"
       \/ od.pc = "insert" /\ od.idx > Len(alerts)
    /\ queue' = CallSendAlerts(queue)
    /\ od' = OdIdle
    /\ UNCHANGED <<now, env, db, alerts, policies, alert_source_last_run,
                   alert_sources_errors, sources_run_times, sources_locks, SEND_ALERTS_ON_READY,
                   pa, sa, oc, told>>

\* ----------------------------------------------------------- specifications
\* The engine: scheduling passes, one-shot calls, the dispatch passes they
\* request, and an operator who dismisses and restores.
Next ==
    \/ periodic_process_alerts
    \/ process_alerts_start
    \/ run_alerts_start
    \/ source_check_returns
    \/ process_alerts_end
    \/ send_alerts_start
    \/ send_alerts_service
    \/ send_alerts_next_policy
    \/ dismiss
    \/ restore
    \/ oneshot_create_call
    \/ oneshot_delete_call
    \/ oneshot_create_start
    \/ oneshot_create_end
    \/ oneshot_delete_start
    \/ flush_alerts_start
    \/ flush_alerts_insert
    \/ oneshot_delete_end

Spec == Init /\ [][Next]_vars

\* The policies on their own: the clock advances, the store changes as the
\* operations of the service change it, and a policy receives the store as in
\* line 508.
PolicyAlerts ==
    <<Loaded("A", "disk", "DiskFail", "sda", FALSE),
      Loaded("A", "temp", "TempHigh", "cpu0", FALSE)>>

StoreUniverse ==
    {SelectSeq(PolicyAlerts, LAMBDA a : a \in S) : S \in SUBSET Range(PolicyAlerts)}

InitPolicy ==
    /\ now = 0
    /\ node = "A"
    /\ sys = SingleNode
    /\ alerts \in StoreUniverse
    /\ policies = SeededPolicies(alerts, 0)
    /\ alert_source_last_run = [s \in DOMAIN ALERT_SOURCES |-> DatetimeMin]
    /\ alert_sources_errors = {}
    /\ sources_locks = <<>>
    /\ sources_run_times = [s \in DOMAIN ALERT_SOURCES |-> 0]
    /\ db = Rows(PolicyAlerts)
    /\ SEND_ALERTS_ON_READY = FALSE
    /\ queue = <<>>
    /\ pa = PaIdle
    /\ sa = SaIdle
    /\ oc = OcIdle
    /\ od = OdIdle
    /\ sent = <<>>
    /\ last_send = NoSend
    /\ events = <<>>
    /\ op_events = <<>>
    /\ outbound = NoOutbound
    /\ removed = {}

Tick ==
    /\ now < MaxClock
    /\ now' = now + 1
    /\ UNCHANGED <<env, db, alerts, policies, alert_source_last_run,
                   alert_sources_errors, sources_run_times, sources_locks, SEND_ALERTS_ON_READY,
                   queue, pa, sa, oc, od, told>>

store_changes ==
    /\ alerts' \in StoreUniverse
    /\ UNCHANGED <<now, env, db, policies, alert_source_last_run,
                   alert_sources_errors, sources_run_times, sources_locks, SEND_ALERTS_ON_READY,
                   queue, pa, sa, oc, od, told>>

policy_receives ==
    /\ \E i \in DOMAIN POLICIES : ReceiveFor(i, now)
    /\ UNCHANGED <<now, env, db, alerts, alert_source_last_run,
                   alert_sources_errors, sources_run_times, sources_locks, SEND_ALERTS_ON_READY,
                   queue, pa, oc, od, told>>

NextPolicy ==
    \/ Tick
    \/ store_changes
    \/ policy_receives

SpecPolicy == InitPolicy /\ [][NextPolicy]_vars

\* An HA pair: the local node is the licensed MASTER, the peer does not answer;
\* block_failover_alerts was called at boot (line 831).
HaMaster ==
    [SingleNode EXCEPT !.product_type = "SCALE_ENTERPRISE", !.licensed = TRUE,
                       !.status = "MASTER",
                       !.blocked_failover_alerts_until = 900]

\* The store of a node of the pair after start-up: alerts of both nodes.
HaStores ==
    {<<Loaded("A", "disk", "DiskFail", "sda", FALSE),
       Loaded("B", "", "AppUpdate", "app1", FALSE),
       Loaded("A", "", "AppUpdate", "app1", FALSE),
       Loaded("A", "", "AppUpdate", "app2", FALSE),
       Loaded("A", "", "TaskFailed", "task1", FALSE)>>}

InitFailover ==
    /\ now = 0
    /\ node = "A"
    /\ sys = HaMaster
    /\ alerts \in HaStores
    /\ policies = SeededPolicies(alerts, 0)
    /\ alert_source_last_run = [s \in DOMAIN ALERT_SOURCES |-> DatetimeMin]
    /\ alert_sources_errors = {}
    /\ sources_locks = <<>>
    /\ sources_run_times = [s \in DOMAIN ALERT_SOURCES |-> 0]
    /\ db = Rows(alerts)
    /\ SEND_ALERTS_ON_READY = FALSE
    /\ queue = <<>>
    /\ pa = PaIdle
    /\ sa = SaIdle
    /\ oc = OcIdle
    /\ od = OdIdle
    /\ sent = <<>>
    /\ last_send = NoSend
    /\ events = <<>>
    /\ op_events = <<>>
    /\ outbound = NoOutbound
    /\ removed = {}

\* What system.state, failover.status and failover.in_progress return
\* changes, at an instant later than any read so far: the system shuts down,
\* a failover starts or ends, the node takes the other role.
role_changes ==
    /\ now < MaxNow
    /\ now' = now + 1
    /\ \/ sys.state = "READY" /\ sys' = [sys EXCEPT !.state = "SHUTTING_DOWN"]
       \/ sys' = [sys EXCEPT !.in_progress = ~@]
       \/ sys' = [sys EXCEPT !.status = IF @ = "MASTER" THEN "BACKUP" ELSE "MASTER"]
    /\ UNCHANGED <<node, db, alerts, policies, alert_source_last_run,
                   alert_sources_errors, sources_run_times, sources_locks,
                   SEND_ALERTS_ON_READY, queue, pa, sa, oc, od, told>>

\* The engine on an HA pair whose roles change: scheduling passes, one-shot
\* deletions and the dispatch passes they request.
NextFailover ==
    \/ periodic_process_alerts
    \/ process_alerts_start
    \/ run_alerts_start
    \/ source_check_returns
    \/ process_alerts_end
    \/ send_alerts_start
    \/ send_alerts_service
    \/ send_alerts_next_policy
    \/ oneshot_delete_call
    \/ oneshot_delete_start
    \/ flush_alerts_start
    \/ flush_alerts_insert
    \/ oneshot_delete_end
    \/ role_changes

SpecFailover == InitFailover /\ [][NextFailover]_vars

\* ------------------------------------------------------------ the operator
\* The store of a node on which an operator dismisses and restores alerts.
OperatorStore ==
    <<Loaded("A", "disk", "DiskFail", "sda", FALSE),
      Loaded("A", "temp", "TempHigh", "cpu0", TRUE),
      Loaded("A", "", "AppUpdate", "app1", FALSE),
      Loaded("B", "", "AppUpdate", "app1", TRUE),
      Loaded("A", "", "TaskFailed", "task1", FALSE)>>

InitOperator ==
    /\ now = 0
    /\ node = "A"
    /\ sys \in {SingleNode, HaMaster}
    /\ alerts = OperatorStore
    /\ policies = SeededPolicies(alerts, 0)
    /\ alert_source_last_run = [s \in DOMAIN ALERT_SOURCES |-> DatetimeMin]
    /\ alert_sources_errors = {}
    /\ sources_locks = <<>>
    /\ sources_run_times = [s \in DOMAIN ALERT_SOURCES |-> 0]
    /\ db = Rows(alerts)
    /\ SEND_ALERTS_ON_READY = FALSE
    /\ queue = <<>>
    /\ pa = PaIdle
    /\ sa = SaIdle
    /\ oc = OcIdle
    /\ od = OdIdle
    /\ sent = <<>>
    /\ last_send = NoSend
    /\ events = <<>>
    /\ op_events = <<>>
    /\ outbound = NoOutbound
    /\ removed = {}

NextOperator ==
    \/ dismiss
    \/ restore

SpecOperator == InitOperator /\ [][NextOperator]_vars

\* ------------------------------------------------------------------ start-up
\* The rows system.alert can hold when the service starts: alerts of a source
\* and of one-shot classes, two rows of one uuid, a row of a source and a row
\* of a class that are no longer present.
TableRows ==
    {Loaded("A", "disk", "DiskFail", "sda", FALSE),
     Loaded("A", "", "AppUpdate", "app1", FALSE),
     Loaded("A", "", "AppUpdate", "app1", TRUE),
     Loaded("A", "", "AppUpdate", "app2", FALSE),
     Loaded("A", "smart", "DiskFail", "sdb", FALSE),
     Loaded("A", "", "OldClass", "x", FALSE)}

Tables == UNION {[1..n -> TableRows] : n \in 0..MaxRows}

\* Lines 245-253: the source of the row, if any, and its class are present.
KnownRow(row) ==
    /\ row.source = "" \/ row.source \in DOMAIN ALERT_SOURCES
    /\ row.klass \in DOMAIN class_by_name

\* Lines 262-264: the first alert of each uuid.
RECURSIVE UniqueByUuid(_)
UniqueByUuid(s) ==
    IF s = <<>> THEN <<>>
    ELSE LET init == UniqueByUuid(SubSeq(s, 1, Len(s) - 1))
             last == s[Len(s)]
         IN IF HasUuid(init, last.uuid) THEN init ELSE Append(init, last)

\* The keys of alerts_by_classes in the order of their insertion.
RECURSIVE ClassesOf(_)
ClassesOf(s) ==
    IF s = <<>> THEN <<>>
    ELSE LET init == ClassesOf(SubSeq(s, 1, Len(s) - 1))
             last == s[Len(s)].klass
         IN IF \E i \in DOMAIN init : init[i] = last THEN init ELSE Append(init, last)

OfClass(s, klass) == SelectSeq(s, LAMBDA a : a.klass = klass)

\* What the load hook of a one-shot class returns for the alerts loaded: the
\* alerts of the resources that still exist (here the applications).
InstalledApps == {"app1"}
LoadHook(klass, loaded) ==
    IF klass = "AppUpdate"
    THEN SelectSeq(loaded, LAMBDA a : a.key \in InstalledApps)
    ELSE loaded

\* isinstance(alerts[0].klass, OneShotAlertClass), line 269: klass is a class
\* of class_by_name, and a class is an instance of its metaclass, not of an
\* alert class.
isinstance_OneShotAlertClass(klass) == FALSE

\* Lines 268-272: the alerts of each class, through the hook if the test of
\* line 269 holds.
RECURSIVE ExtendByClasses(_, _)
ExtendByClasses(names, unique) ==
    IF names = <<>> THEN <<>>
    ELSE LET klass == names[1]
             group == OfClass(unique, klass)
         IN (IF isinstance_OneShotAlertClass(klass)
             THEN LoadHook(klass, group)
             ELSE group)
            \o ExtendByClasses(Tail(names), unique)

\* Lines 241-272: the store initialize(load=True) builds from the rows.
LoadedAlerts(rows) ==
    LET unique == UniqueByUuid(SelectSeq(rows, KnownRow))
    IN ExtendByClasses(ClassesOf(unique), unique)

\* The service object before initialize(): no store and no policies yet.
InitLoad ==
    /\ now = 0
    /\ node = "A"
    /\ sys = SingleNode
    /\ alerts = <<>>
    /\ policies = <<>>
    /\ alert_source_last_run = [s \in DOMAIN ALERT_SOURCES |-> DatetimeMin]
    /\ alert_sources_errors = {}
    /\ sources_locks = <<>>
    /\ sources_run_times = [s \in DOMAIN ALERT_SOURCES |-> 0]
    /\ db \in Tables
    /\ SEND_ALERTS_ON_READY = FALSE
    /\ queue = <<>>
    /\ pa = PaIdle
    /\ sa = SaIdle
    /\ oc = OcIdle
    /\ od = OdIdle
    /\ sent = <<>>
    /\ last_send = NoSend
    /\ events = <<>>
    /\ op_events = <<>>
    /\ outbound = NoOutbound
    /\ removed = {}

\* AlertService.initialize(load): the rows are loaded, or the table is
\* flushed with the empty store; the policies receive the store.
initialize ==
    /\ policies = <<>>
    /\ \E load \in BOOLEAN :
        /\ alerts' = IF load THEN LoadedAlerts(db) ELSE <<>>
        /\ db' = IF load \/ (sys.licensed /\ sys.status = "BACKUP") THEN db ELSE <<>>
    /\ node' = IF sys.product_type = "SCALE_ENTERPRISE" /\ sys.failover_node = "B"
               THEN "B" ELSE "A"
    /\ alert_source_last_run' = [s \in DOMAIN ALERT_SOURCES |-> DatetimeMin]
    /\ policies' = SeededPolicies(alerts', now)
    /\ UNCHANGED <<now, sys, alert_sources_errors, sources_run_times, sources_locks,
                   SEND_ALERTS_ON_READY, queue, pa, sa, oc, od, told>>

NextLoad == initialize

SpecLoad == InitLoad /\ [][NextLoad]_vars

\* ------------------------------------------------------ the pair and blocks
\* The calls of block_source made from outside: <<source_name, timeout>>.
BlockCalls == {<<"disk", 2>>, <<"temp", 2>>}

\* AlertService.block_source: a token that no lock has (uuid.uuid4()) blocks
\* the source up to now + timeout.
block_source ==
    /\ Cardinality(DOMAIN sources_locks) < MaxLocks
    /\ \E c \in BlockCalls :
        LET source_name == c[1]
            timeout == c[2]
            lock == CHOOSE t \in 1..MaxLocks :
                        /\ t \notin DOMAIN sources_locks
                        /\ \A u \in 1..(t - 1) : u \in DOMAIN sources_locks
        IN sources_locks' =
                [k \in DOMAIN sources_locks \cup {lock} |->
                    IF k = lock
                    THEN [source_name |-> source_name, expires_at |-> now + timeout]
                    ELSE sources_locks[k]]
    /\ UNCHANGED <<now, env, db, alerts, policies, alert_source_last_run,
                   alert_sources_errors, sources_run_times,
                   SEND_ALERTS_ON_READY, queue, pa, sa, oc, od, told>>

\* AlertService.unblock_source
unblock_source ==
    /\ \E lock \in DOMAIN sources_locks :
        sources_locks' = [k \in DOMAIN sources_locks \ {lock} |-> sources_locks[k]]
    /\ UNCHANGED <<now, env, db, alerts, policies, alert_source_last_run,
                   alert_sources_errors, sources_run_times,
                   SEND_ALERTS_ON_READY, queue, pa, sa, oc, od, told>>

\* An HA pair whose peer answers: the local node is the licensed MASTER, the
\* peer is READY, BACKUP and of the same version.
HaPair ==
    [HaMaster EXCEPT !.peer = [reachable |-> TRUE, same_version |-> TRUE,
                               state |-> "READY", status |-> "BACKUP"]]

\* The store of the MASTER after start-up: a dismissed alert of a source, the
\* peer's alert of the source, and a one-shot alert.
PairStores ==
    {<<Loaded("A", "disk", "DiskFail", "sda", TRUE),
       Loaded("B", "disk", "DiskFail", "sda", FALSE),
       Loaded("A", "ha", "AlertSourceRunFailed", "ha", FALSE),
       Loaded("A", "", "AppUpdate", "app1", FALSE)>>}

InitPair ==
    /\ now = 0
    /\ node = "A"
    /\ sys = HaPair
    /\ alerts \in PairStores
    /\ policies = SeededPolicies(alerts, 0)
    /\ alert_source_last_run = [s \in DOMAIN ALERT_SOURCES |-> DatetimeMin]
    /\ alert_sources_errors = {}
    /\ sources_locks = <<>>
    /\ sources_run_times = [s \in DOMAIN ALERT_SOURCES |-> 0]
    /\ db = Rows(alerts)
    /\ SEND_ALERTS_ON_READY = FALSE
    /\ queue = <<>>
    /\ pa = PaIdle
    /\ sa = SaIdle
    /\ oc = OcIdle
    /\ od = OdIdle
    /\ sent = <<>>
    /\ last_send = NoSend
    /\ events = <<>>
    /\ op_events = <<>>
    /\ outbound = NoOutbound
    /\ removed = {}

\* What failover.call_remote returns changes: the peer stops to answer.
peer_changes ==
    /\ sys.peer.reachable
    /\ sys' = [sys EXCEPT !.peer.reachable = FALSE]
    /\ UNCHANGED <<now, node, db, alerts, policies, alert_source_last_run,
                   alert_sources_errors, sources_run_times, sources_locks,
                   SEND_ALERTS_ON_READY, queue, pa, sa, oc, od, told>>

\* The MASTER of a pair up to its first dispatch pass: the scheduling passes
\* that the timer has requested by then, which ask the peer, and callers that
\* block and unblock sources.
NextPair ==
    \/ periodic_process_alerts
    \/ process_alerts_start
    \/ run_alerts_start
    \/ source_check_returns
    \/ peer_call_returns
    \/ process_alerts_end
    \/ block_source
    \/ unblock_source
    \/ peer_changes

SpecPair == InitPair /\ [][NextPair]_vars

\* ------------------------------------------------------------- reconciliation
\* The step in which the check of a source has returned and the source's
\* entries of the store are replaced.
SourceFinishes ==
    /\ pa.pc = "check"
    /\ pa'.pc = "recheck" \/ (pa'.pc = "check" /\ pa'.idx > pa.idx)

\* The step in which oneshot_create stores its alert.
OneShotStored == oc.pc = "create" /\ oc'.pc = "idle"

\* The entries of the store the step has reconciled.
Reconciled(a) ==
    \/ SourceFinishes /\ a.source = SourceNames[pa.idx]
    \/ OneShotStored /\ IdentityOf(a) = <<node, "", oc.klass, oc.args>>

\* The first-seen times a producer can supply for the alert: the instant of
\* the reconciliation, or the datetime it gave, as naive UTC.
Supplied(a) ==
    IF a.source = "" THEN {now}
    ELSE {IF x.given = NoDatetime THEN now ELSE x.given.t - x.given.off :
            x \in {y \in UNION {Range(o.alerts) : o \in CheckOutcomes(a.source)} :
                        y.klass = a.klass /\ y.key = a.key}}
         \cup (IF a.klass = "AlertSourceRunFailed" THEN {now} ELSE {})

\* C1: when a source run or a one-shot creation produces an alert whose
\* (node, source, class, key) equals that of an alert already in the store,
\* the entry it leaves in the store has the stored alert's uuid, first-seen
\* datetime and dismissed flag, and its last_occurrence is the current instant.
C1_IdentityPreserved ==
    [][\A i \in DOMAIN alerts' : \A j \in DOMAIN alerts :
            (Reconciled(alerts'[i]) /\ IdentityOf(alerts'[i]) = IdentityOf(alerts[j]))
            => /\ alerts'[i].uuid = alerts[j].uuid
               /\ alerts'[i].datetime = alerts[j].datetime
               /\ alerts'[i].dismissed = alerts[j].dismissed
               /\ alerts'[i].last_occurrence = now]_vars

\* A dismissed alert loaded at instant 0 has been observed again by its
\* source.
C1_Witness ==
    \E i \in DOMAIN alerts :
        /\ alerts[i].source = "disk"
        /\ alerts[i].uuid[5] = 0
        /\ alerts[i].dismissed
        /\ alerts[i].last_occurrence > 0

\* C2: an alert with no match in the store is stored with a uuid no other
\* alert of the store has or had, a first-seen datetime equal to the current
\* instant (or to the producer's datetime as naive UTC), last_occurrence equal
\* to the current instant, and dismissed false.
C2_NewAlert ==
    [][\A i \in DOMAIN alerts' :
            (Reconciled(alerts'[i])
                /\ \A j \in DOMAIN alerts : IdentityOf(alerts'[i]) # IdentityOf(alerts[j]))
            => /\ \A j \in DOMAIN alerts : alerts[j].uuid # alerts'[i].uuid
               /\ \A j \in DOMAIN alerts' : j # i => alerts'[j].uuid # alerts'[i].uuid
               /\ alerts'[i].uuid # <<>>
               /\ alerts'[i].datetime \in Supplied(alerts'[i])
               /\ alerts'[i].last_occurrence = now
               /\ alerts'[i].dismissed = FALSE]_vars

\* A source alert that came with a datetime of its own, in another zone, is
\* in the store as a new alert.
C2_Witness ==
    \E i \in DOMAIN alerts :
        /\ alerts[i].klass = "DiskFail"
        /\ alerts[i].uuid[5] > 0
        /\ alerts[i].datetime < alerts[i].uuid[5]
        /\ ~alerts[i].dismissed

\* The step in which oneshot_create stores an alert that the local node has
\* in the store already: the second of two calls with the same class and args.
CreatedAgain ==
    /\ OneShotStored
    /\ \E j \in DOMAIN alerts :
            IdentityOf(alerts[j]) = <<node, "", oc.klass, oc.args>>

\* C3 (as stated): after the second of two oneshot_create calls with the same
\* class and args the store has exactly one entry of that class and key.
C3_OneEntryPerClassAndKey ==
    [][CreatedAgain =>
            Cardinality({i \in DOMAIN alerts' :
                /\ alerts'[i].klass = oc.klass
                /\ alerts'[i].key = oc.args}) = 1]_vars

\* C3: after the second of two oneshot_create calls with the same class and
\* args the store has exactly one entry of that class and key for the local
\* node; its uuid and first-seen datetime are those the first call left, and
\* its last_occurrence is the instant of the second call.
C3_OneEntryPerLocalIdentity ==
    [][CreatedAgain =>
            \E i \in DOMAIN alerts' :
                /\ IdentityOf(alerts'[i]) = <<node, "", oc.klass, oc.args>>
                /\ \A k \in DOMAIN alerts' :
                        IdentityOf(alerts'[k]) = IdentityOf(alerts'[i]) => k = i
                /\ \A j \in DOMAIN alerts :
                        IdentityOf(alerts[j]) = IdentityOf(alerts'[i])
                        => /\ alerts'[i].uuid = alerts[j].uuid
                           /\ alerts'[i].datetime = alerts[j].datetime
                /\ alerts'[i].last_occurrence = now]_vars

\* The local node's one-shot alert has been created a second time, next to
\* the other node's alert of the same class and key.
C3_Witness ==
    \E i \in DOMAIN alerts :
        /\ alerts[i].source = ""
        /\ alerts[i].node = node
        /\ alerts[i].datetime > 0
        /\ alerts[i].last_occurrence > alerts[i].datetime
        /\ \E k \in DOMAIN alerts :
                /\ alerts[k].node # node
                /\ SameClassAndKey(alerts[k], alerts[i])

\* ------------------------------------------------------------------- policies
UuidsOf(s) == {s[i].uuid : i \in DOMAIN s}

\* The step in which the policy named p receives the store.
Received(p) ==
    /\ sa'.pc = "services"
    /\ POLICIES[sa'.policy] = p
    /\ \/ sa.pc = "idle"
       \/ sa'.policy # sa.policy
       \/ sa' # sa /\ sa'.service <= sa.service /\ UNCHANGED <<now, alerts>>

\* The policy p tracks the clock hour (HOURLY) or the calendar day (DAILY) of
\* the instant d.
SameBucket(p, d) ==
    IF p = "HOURLY"
    THEN policies[p].last_key_value = <<d \div DayLen, (d % DayLen) \div HourLen>>
    ELSE policies[p].last_key_value = <<d \div DayLen>>

\* C4: under HOURLY (DAILY) a receive in the clock hour (calendar day) of the
\* previous receive returns empty gone and new lists and leaves the tracked
\* bucket and the tracked set as they are, whatever the store holds; the first
\* receive in another hour (day) returns the whole difference between the set
\* tracked since the last change of bucket and the store.
C4_Throttled ==
    [][\A p \in {"HOURLY", "DAILY"} :
            Received(p) =>
                IF SameBucket(p, sa'.now)
                THEN /\ sa'.gone_alerts = <<>>
                     /\ sa'.new_alerts = <<>>
                     /\ policies'[p] = policies[p]
                ELSE /\ UuidsOf(sa'.gone_alerts) =
                            UuidsOf(policies[p].last_key_value_alerts) \ UuidsOf(alerts)
                     /\ UuidsOf(sa'.new_alerts) =
                            UuidsOf(alerts) \ UuidsOf(policies[p].last_key_value_alerts)]_vars

\* HOURLY has just received, after instant 0 and in the hour it tracks, a
\* store that differs from the set it tracks, and has returned nothing.
C4_Witness ==
    /\ sa.pc = "services"
    /\ POLICIES[sa.policy] = "HOURLY"
    /\ sa.now = now
    /\ now > 0
    /\ SameBucket("HOURLY", now)
    /\ UuidsOf(policies["HOURLY"].last_key_value_alerts) # UuidsOf(alerts)
    /\ sa.gone_alerts = <<>>
    /\ sa.new_alerts = <<>>

\* C5: receive_alerts returns a non-empty gone or new list only when the key
\* of the instant differs from the key the policy has recorded; then gone is the
\* alerts tracked whose uuid is not in the store, new is the alerts of the
\* store whose uuid is not tracked, and the policy records the key and tracks
\* the store.
C5_DiffOnBucketChange ==
    [][\A p \in PolicyNames :
            Received(p) =>
                /\ (sa'.gone_alerts # <<>> \/ sa'.new_alerts # <<>>)
                        => PolicyKey(p, sa'.now) # policies[p].last_key_value
                /\ PolicyKey(p, sa'.now) # policies[p].last_key_value
                        => /\ Range(sa'.gone_alerts) =
                                {a \in Range(policies[p].last_key_value_alerts) :
                                    a.uuid \notin UuidsOf(alerts)}
                           /\ Range(sa'.new_alerts) =
                                {a \in Range(alerts) :
                                    a.uuid \notin
                                        UuidsOf(policies[p].last_key_value_alerts)}
                           /\ policies'[p].last_key_value = PolicyKey(p, sa'.now)
                           /\ UuidsOf(policies'[p].last_key_value_alerts) =
                                UuidsOf(alerts)]_vars

\* DAILY has received on another day and has returned an alert that is gone
\* and an alert that is new.
C5_Witness ==
    /\ sa.pc = "services"
    /\ POLICIES[sa.policy] = "DAILY"
    /\ sa.now >= DayLen
    /\ sa.gone_alerts # <<>>
    /\ sa.new_alerts # <<>>
    /\ policies["DAILY"].last_key_value = PolicyKey("DAILY", sa.now)

\* ---------------------------------------------------------- source isolation
\* The step in which the check of a source has returned.
CheckReturned == pa.pc = "check" /\ (pa'.pc # "check" \/ pa'.idx # pa.idx)

EntriesOf(store, source_name) == SelectSeq(store, LAMBDA a : a.source = source_name)

C6_ChurnCancelled ==
    \A i \in DOMAIN last_send.gone : \A j \in DOMAIN last_send.new :
        ~SameClassAndKey(last_send.gone[i], last_send.new[j])

\* A dispatch pass has received, under a policy, an alert that is gone and a
\* new alert of the same class and key, and is at a service both are for.
C6_Witness ==
    /\ sa.pc = "services"
    /\ \E i \in DOMAIN sa.gone_alerts : \E j \in DOMAIN sa.new_alerts :
            /\ SameClassAndKey(sa.gone_alerts[i], sa.new_alerts[j])
            /\ sa.gone_alerts[i].uuid # sa.new_alerts[j].uuid
            /\ ~sa.gone_alerts[i].dismissed
            /\ ~sa.new_alerts[j].dismissed
            /\ get_alert_policy(sa.new_alerts[j]) = POLICIES[sa.policy]
    /\ last_send # NoSend

\* C8: none of the three arguments of a send holds an alert that is dismissed
\* when the call is made.
C8_NoDismissedSent ==
    \A a \in Range(last_send.alerts) \cup Range(last_send.gone)
                \cup Range(last_send.new) : ~a.dismissed

\* A send is awaited while the store holds a dismissed alert that the
\* service's level and the policies let through.
C8_Witness ==
    /\ last_send # NoSend
    /\ \E i \in DOMAIN alerts :
            /\ alerts[i].dismissed
            /\ get_alert_policy(alerts[i]) # "NEVER"
            /\ get_alert_level(alerts[i]) >= AlertLevel["CRITICAL"]
            /\ alerts[i].last_occurrence < now

\* The dispatch pass moves on: to a later service, to the next policy, or to
\* its end.
Advances ==
    /\ sa.pc = "services"
    /\ sa'.pc # sa.pc \/ sa'.policy # sa.policy \/ sa'.service # sa.service

\* C9: a backend type that does not exist, a backend that cannot be built and
\* a send that raises do not end the dispatch pass: from where it stands the
\* pass calls the first service that has something to report and a backend,
\* leaves a policy only when no such service is left, takes the policies one
\* after the other and ends after the last.
C9_FaultIsolation ==
    [][Advances =>
        LET p == POLICIES[sa.policy]
            left == {k \in sa.service..Len(AlertServices) : Sends(AlertServices[k], p)}
        IN IF left # {}
           THEN /\ sa'.pc = "services"
                /\ sa'.policy = sa.policy
                /\ sa'.service - 1 \in left
                /\ \A k \in left : sa'.service - 1 <= k
                /\ Len(sent') = Len(sent) + 1
                /\ sent'[Len(sent')].service = sa'.service - 1
                /\ sent'[Len(sent')].policy = p
           ELSE /\ sent' = sent \/ sa'.pc = "idle"
                /\ IF sa.policy < Len(POLICIES)
                   THEN sa'.pc = "services" /\ sa'.policy = sa.policy + 1
                            /\ sa'.service = 1
                   ELSE sa'.pc = "idle"]_vars

\* Under one policy the send of a service has raised and the send of the
\* service after it has been called, the services before them having a type
\* that does not exist and a backend that cannot be built.
C9_Witness ==
    /\ sa.pc = "services"
    /\ Len(sent) >= 2
    /\ sent[Len(sent) - 1].result = "error"
    /\ sent[Len(sent) - 1].policy = sent[Len(sent)].policy
    /\ sent[Len(sent) - 1].service < sent[Len(sent)].service
    /\ \E k \in 1..(sent[Len(sent) - 1].service - 1) :
            AlertServices[k].type \notin ALERT_SERVICES_FACTORIES
    /\ \E k \in 1..(sent[Len(sent) - 1].service - 1) :
            AlertServices[k].attributes = "invalid"

\* ---------------------------------------------------------------------- jobs
\* C10: process_alerts, send_alerts, oneshot_create and oneshot_delete name
\* one lock: no two of them run at the same time.
C10_SingleFlight == Cardinality(Running) <= 1

\* A job is between two of its steps while a job of another method waits.
C10_Witness ==
    \E m \in Running : \E i \in DOMAIN queue :
        /\ queue[i].method # m
        /\ JobLock(queue[i].method) = JobLock(m)
        /\ now < MaxNow

\* ------------------------------------------------------- the store in a pass
\* The dispatch pass has computed the gone and new lists of a policy and has
\* not ended.
Dispatching == sa.pc = "services"

\* C11: from the moment a dispatch pass has computed the gone and new lists of
\* a policy to the end of the pass no step adds, removes or changes an alert
\* of the store.
C11_StoreFrozenInDispatch == [][Dispatching => alerts' = alerts]_vars

\* ---------------------------------------------------------------- coalescing
\* C12 (as stated): of each operation at most one request waits for the lock,
\* whatever number of triggers and of dispatch requests arrived.
C12_OnePendingPerOperation ==
    \A m \in Methods : Cardinality(Pending(queue, m)) <= 1

\* C12: at most one process_alerts request waits for the lock, whatever
\* number of times the periodic timer fired; the timer firing again leaves the
\* queue as it is.
C12_OnePendingTrigger ==
    /\ Cardinality(Pending(queue, "process_alerts")) <= 1
    /\ Pending(queue, "process_alerts") # {}
            => Enqueue(queue, Request("process_alerts", <<>>, None)) = queue

\* The lock is held, a process_alerts request waits, and the timer can fire.
C12_Witness ==
    /\ Running # {}
    /\ Pending(queue, "process_alerts") # {}
    /\ Len(queue) < MaxTriggers

\* ------------------------------------------------------- the scheduling pass
\* The preconditions of a pass fail: the system is not READY, or it is HA
\* licensed and the local node is BACKUP or a failover is in progress.
PreconditionsFail ==
    \/ sys.state # "READY"
    \/ sys.licensed /\ (sys.status = "BACKUP" \/ sys.in_progress)

\* The step in which a process_alerts job starts.
PassStarts ==
    /\ NextJob # 0
    /\ queue[NextJob].method = "process_alerts"
    /\ queue' = Dequeue(NextJob)

\* The step in which a pass ends at its re-check.
PassEnds == pa.pc = "recheck" /\ pa'.pc = "idle"

\* The fields of the alerts of a list, whatever objects hold them.
Values(s) == [i \in DOMAIN s |-> [s[i] EXCEPT !.obj = 0]]

SendRequests(q) == Cardinality(Pending(q, "send_alerts"))

\* C13: a pass whose preconditions hold at its start keeps the store of that
\* instant as its snapshot; when they fail at the re-check, after the sources
\* were run and the alerts expired, the store is again the snapshot and no
\* dispatch is requested.
C13_Rollback ==
    [][/\ (PassStarts /\ ~PreconditionsFail)
            => Values(pa'.valid_alerts) = Values(alerts)
       /\ (pa.pc # "idle" /\ pa'.pc # "idle")
            => pa'.valid_alerts = pa.valid_alerts
       /\ (PassEnds /\ PreconditionsFail)
            => /\ Values(alerts') = Values(pa.valid_alerts)
               /\ queue' = queue]_vars

\* A pass has run its sources, the store is no longer its snapshot, and the
\* preconditions fail at the re-check.
C13_Witness ==
    /\ pa.pc = "recheck"
    /\ PreconditionsFail
    /\ Values(alerts) # Values(pa.valid_alerts)
    /\ sources_run_times["disk"] > 0

\* C14: a pass that starts while the preconditions fail runs no source,
\* leaves the store, the last-run times, the policies and the run statistics
\* as they are and requests no dispatch.
C14_NoOp ==
    [][(PassStarts /\ PreconditionsFail)
        => /\ pa'.pc = "idle"
           /\ UNCHANGED <<alerts, alert_source_last_run, policies,
                          sources_run_times, alert_sources_errors, db>>
           /\ SendRequests(queue') = SendRequests(queue)]_vars

\* A process_alerts job is about to start while the local node, a licensed
\* MASTER before, is BACKUP.
C14_Witness ==
    /\ PreconditionsFail
    /\ sys.state = "READY"
    /\ sys.status = "BACKUP"
    /\ Running = {}
    /\ NextJob # 0
    /\ queue[NextJob].method = "process_alerts"
    /\ now < MaxNow

\* ------------------------------------------------------------ the NEVER policy
\* The class named in the uuid or in the fields of an alert has the effective
\* policy NEVER.
NeverClass(klass) ==
    klass \in DOMAIN classes.policy /\ classes.policy[klass] = "NEVER"

\* No argument of the send awaited, no event of the dispatch step and no
\* entry of list() is an alert whose effective policy is NEVER.
NeverUntold ==
    /\ \A a \in Range(last_send.alerts) \cup Range(last_send.gone)
                    \cup Range(last_send.new) : ~NeverClass(a.klass)
    /\ \A e \in Range(events) : ~NeverClass(e.id[3])
    /\ \A a \in Range(list) : ~NeverClass(a.klass)

\* C15: every receive of the NEVER policy returns empty gone and new lists,
\* and an alert whose effective policy is NEVER is in no argument of a send,
\* causes no ADDED or REMOVED event of a dispatch pass and is not in list().
C15_NeverPolicySilent ==
    /\ [][Received("NEVER") => (sa'.gone_alerts = <<>> /\ sa'.new_alerts = <<>>)]_vars
    /\ []NeverUntold

\* The IMMEDIATELY policy has received, as a new alert, a one-shot alert whose
\* class has the policy NEVER, and has sent events for other alerts; the alert
\* is in the store.
C15_Witness ==
    /\ sa.pc = "services"
    /\ sa.policy > 1
    /\ events # <<>>
    /\ \E i \in DOMAIN alerts :
            /\ NeverClass(alerts[i].klass)
            /\ alerts[i].uuid[5] > 0
            /\ HasUuid(policies["IMMEDIATELY"].last_key_value_alerts, alerts[i].uuid)

OfClassAndKey(store) ==
    SelectSeq(store, LAMBDA a : a.klass = oc.klass /\ a.key = oc.args)

\* C17 (as stated): when oneshot_create produces an alert whose class and key
\* are those of a stored alert, whatever its node and source, the store ends
\* with one entry of that class and key, which has the stored alert's uuid,
\* dismissed flag and first-seen datetime.
C17_MatchByClassAndKey ==
    [][(OneShotStored /\ OfClassAndKey(alerts) # <<>>)
        => /\ Len(OfClassAndKey(alerts')) = 1
           /\ OfClassAndKey(alerts')[1].uuid = OfClassAndKey(alerts)[1].uuid
           /\ OfClassAndKey(alerts')[1].dismissed = OfClassAndKey(alerts)[1].dismissed
           /\ OfClassAndKey(alerts')[1].datetime = OfClassAndKey(alerts)[1].datetime]_vars

\* C17: the match of the alert oneshot_create produces is the stored alert of
\* the local node, the empty source, the class and the key.  With a match the
\* store ends with one entry of that identity, which has the match's uuid,
\* dismissed flag and first-seen datetime; without one the entry is new, with
\* a uuid of its own.  A stored alert of the class and key that has another
\* node or source is no match and stays in the store as it is.
C17_MatchByLocalIdentity ==
    [][OneShotStored =>
        LET id == <<node, "", oc.klass, oc.args>>
            mine(store) == SelectSeq(store, LAMBDA a : IdentityOf(a) = id)
            others(store) == SelectSeq(store, LAMBDA a : IdentityOf(a) # id)
        IN /\ Len(mine(alerts')) = 1
           /\ mine(alerts) # <<>>
                => /\ mine(alerts')[1].uuid = mine(alerts)[1].uuid
                   /\ mine(alerts')[1].dismissed = mine(alerts)[1].dismissed
                   /\ mine(alerts')[1].datetime = mine(alerts)[1].datetime
           /\ mine(alerts) = <<>>
                => /\ mine(alerts')[1].uuid \notin UuidsOf(alerts)
                   /\ ~mine(alerts')[1].dismissed
                   /\ mine(alerts')[1].datetime = now
           /\ others(alerts') = others(alerts)]_vars

\* oneshot_create has stored a first alert for the local node while the store
\* holds the other node's alert of the same class and key.
C17_Witness ==
    \E i \in DOMAIN alerts : \E k \in DOMAIN alerts :
        /\ alerts[i].node = node
        /\ alerts[i].source = ""
        /\ alerts[i].last_occurrence = alerts[i].datetime
        /\ alerts[i].datetime > 0
        /\ alerts[k].node # node
        /\ alerts[k].source = ""
        /\ SameClassAndKey(alerts[k], alerts[i])
        /\ alerts[k].uuid # alerts[i].uuid

\* The step in which an oneshot_delete job starts and runs its loop.
DeleteRuns ==
    /\ NextJob # 0
    /\ queue[NextJob].method = "oneshot_delete"
    /\ queue' = Dequeue(NextJob)

\* The step in which an oneshot_create job starts.
CreateRuns ==
    /\ NextJob # 0
    /\ queue[NextJob].method = "oneshot_create"
    /\ queue' = Dequeue(NextJob)

\* The step in which oneshot_delete requests its dispatch.
DeleteRequestsDispatch ==
    /\ od.pc # "idle"
    /\ od'.pc = "idle"
    /\ SendRequests(queue') > SendRequests(queue)

\* C18: an oneshot_delete that removes an alert goes on to flush, and when it
\* requests its dispatch the table holds the rows of the store; one that
\* removes nothing writes nothing and requests no dispatch.
C18_FlushBeforeDispatch ==
    /\ [][DeleteRuns /\ alerts' # alerts => od'.pc = "flush"]_vars
    /\ [][DeleteRequestsDispatch => db = Rows(alerts)]_vars
    /\ [][DeleteRuns /\ alerts' = alerts
            => od'.pc = "idle" /\ db' = db]_vars

\* The candidates of the call for a class, and what the call keeps of the
\* store: every alert that is no candidate, and the candidates the hook of
\* their class returns.
Candidates(klassname) ==
    SelectSeq(alerts, LAMBDA a : a.node = node /\ a.klass = klassname)

KeptByDelete(a, klasses, query) ==
    \A i \in DOMAIN klasses :
        a.node = node /\ a.klass = klasses[i]
            => a \in Range(DeleteHook(Candidates(klasses[i]), query))

\* C19: an oneshot_delete whose class names are all one-shot classes ends
\* without an error, also when no alert matches, and leaves in the store, in
\* their order and unchanged, the alerts of the other node, the alerts of the
\* classes not named, and of the local alerts of each named class exactly the
\* ones the delete hook returns for them.
C19_DeletesWhatHookDrops ==
    [][DeleteRuns /\ (\A i \in DOMAIN queue[NextJob].klass :
                        ~InvalidClass(queue[NextJob].klass[i]))
        => LET r == queue[NextJob]
           IN /\ od'.error = None
              /\ alerts' = SelectSeq(alerts, LAMBDA a :
                                KeptByDelete(a, r.klass, r.arg))]_vars

\* An oneshot_delete has removed a local alert of a class and kept another
\* one, and the store holds the other node's alert of that class.
C19_Witness ==
    /\ od.pc = "flush"
    /\ \E i \in DOMAIN alerts : \E k \in DOMAIN alerts :
        /\ alerts[i].node = node
        /\ alerts[i].klass = "AppUpdate"
        /\ alerts[k].node # node
        /\ alerts[k].klass = "AppUpdate"

\* C20: an oneshot_create or oneshot_delete that is given a name that is not
\* that of a one-shot class, anywhere in the list for oneshot_delete, ends
\* with an error and leaves the store and the table as they are and requests
\* no dispatch.
C20_ErrorLeavesNoTrace ==
    /\ [][CreateRuns /\ InvalidClass(queue[NextJob].klass[1])
            => /\ oc'.error = "CallError"
               /\ oc'.pc = "idle"
               /\ alerts' = alerts
               /\ db' = db]_vars
    /\ [][DeleteRuns /\ (\E i \in DOMAIN queue[NextJob].klass :
                            InvalidClass(queue[NextJob].klass[i]))
            => /\ od'.error = "CallError"
               /\ od'.pc = "idle"
               /\ alerts' = alerts
               /\ db' = db]_vars

\* ------------------------------------------------------- the sources in a pass
\* The step of a scheduling pass in which its loop comes to the i-th source:
\* the loop starts, or goes on after the check or the peer call it waited for.
Visits(i) ==
    /\ pa.pc \in {"run_alerts", "check", "peer"}
    /\ pa'.pc \in {"check", "recheck"}
    /\ pa'.pc # pa.pc \/ pa'.idx # pa.idx
    /\ i >= (IF pa.pc = "run_alerts" THEN 1 ELSE pa.idx + 1)
    /\ i <= (IF pa'.pc = "check" THEN pa'.idx ELSE Len(SourceNames))

\* The source has a lock token that has not expired.
Blocked(source_name) ==
    \E k \in DOMAIN sources_locks :
        /\ sources_locks[k].source_name = source_name
        /\ sources_locks[k].expires_at > now

\* The alert is in the store after the step with its uuid, dismissed flag and
\* first-seen time.
Kept(a) ==
    \E k \in DOMAIN alerts' :
        /\ IdentityOf(alerts'[k]) = IdentityOf(a)
        /\ alerts'[k].uuid = a.uuid
        /\ alerts'[k].dismissed = a.dismissed
        /\ alerts'[k].datetime = a.datetime

\* The pass does not start to wait for the check of the i-th source.
NotInvoked(i) == ~(pa'.pc \in {"check", "peer"} /\ pa'.idx = i)

\* A token leaves the table only by unblock_source or, expired, at the start
\* of the loop of a pass, where every expired token leaves it.
TokensLeave ==
    IF pa.pc = "run_alerts" /\ pa'.pc # "run_alerts"
    THEN DOMAIN sources_locks' =
            {k \in DOMAIN sources_locks : sources_locks[k].expires_at > now}
    ELSE pa' # pa => sources_locks' = sources_locks

\* C21: a pass that comes to a due source that has an unexpired token does
\* not call its check, here or on the peer, and every stored alert of the
\* source stays in the store with its uuid, dismissed flag and first-seen
\* time; expired tokens, and only those, are removed when the loop starts.
C21_BlockedSourceKept ==
    [][/\ TokensLeave
       /\ \A i \in DOMAIN SourceNames :
            (/\ Visits(i)
             /\ Blocked(SourceNames[i])
             /\ SourceIsDue(SourceNames[i], pa', alert_source_last_run))
            => /\ NotInvoked(i)
               /\ \A j \in DOMAIN alerts :
                    alerts[j].source = SourceNames[i] => Kept(alerts[j])]_vars

\* C21 as amended: the alerts of the local node stay, and those of the peer
\* node stay when the peer is mirrored in the pass and the source runs on it;
\* otherwise no alert of the peer node is left for the source.
C21_BlockedSourceKeptForNode ==
    [][/\ TokensLeave
       /\ \A i \in DOMAIN SourceNames :
            (/\ Visits(i)
             /\ Blocked(SourceNames[i])
             /\ SourceIsDue(SourceNames[i], pa', alert_source_last_run))
            => /\ NotInvoked(i)
               /\ sources_run_times'[SourceNames[i]] = sources_run_times[SourceNames[i]]
               /\ \A j \in DOMAIN alerts :
                    (/\ alerts[j].source = SourceNames[i]
                     /\ \/ alerts[j].node = pa'.master_node
                        \/ /\ alerts[j].node = pa'.backup_node
                           /\ RunsOnPeer(SourceNames[i], pa'))
                    => Kept(alerts[j])
               /\ ~RunsOnPeer(SourceNames[i], pa')
                    => \A k \in DOMAIN alerts' :
                        alerts'[k].source = SourceNames[i]
                            => alerts'[k].node = pa'.master_node]_vars

\* A pass has come to the blocked source disk while another token of disk
\* had been removed: the source was not run, and its dismissed alert and the
\* peer's alert are in the store, seen at the instant of the pass.
C21_Witness ==
    /\ pa.pc = "recheck"
    /\ Cardinality(blocked_sources(sources_locks, "disk")) = 1
    /\ 2 \in DOMAIN sources_locks
    /\ sources_run_times["disk"] = 0
    /\ alert_source_last_run["disk"] = now
    /\ \E i \in DOMAIN alerts : \E k \in DOMAIN alerts :
        /\ alerts[i].source = "disk" /\ alerts[i].node = "A"
        /\ alerts[i].dismissed /\ alerts[i].last_occurrence = now
        /\ alerts[k].source = "disk" /\ alerts[k].node = "B"
        /\ alerts[k].last_occurrence = now

\* --------------------------------------------------------------------- expiry
\* The alert is of a one-shot class with a TTL and was last seen more than
\* the TTL before instant d.
Outlived(a, d) ==
    /\ class_by_name[a.klass].one_shot
    /\ class_by_name[a.klass].expires_after >= 0
    /\ a.last_occurrence < d - class_by_name[a.klass].expires_after

\* The step in which __run_alerts returns and the alerts are expired.
Expires == pa.pc \in {"run_alerts", "check", "peer"} /\ pa'.pc = "recheck"

\* The pass ends without a rollback.
PassCompletes == PassEnds /\ __should_run_or_send_alerts

\* C22: when a pass has expired the alerts, the store holds no alert of a
\* one-shot class with a TTL that was last seen more than the TTL ago, and
\* the pass that is not rolled back ends with that store; the step removes
\* no alert of another class that no source of the step has replaced.
C22_OneShotExpiry ==
    /\ [][Expires => \A k \in DOMAIN alerts' : ~Outlived(alerts'[k], now)]_vars
    /\ [][PassCompletes => alerts' = alerts]_vars
    /\ [][Expires =>
            \A j \in DOMAIN alerts :
                (/\ ~Outlived(alerts[j], now)
                 /\ \A i \in DOMAIN SourceNames :
                        alerts[j].source = SourceNames[i]
                            => /\ ~(pa.pc # "run_alerts" /\ i = pa.idx)
                               /\ ~(/\ Visits(i)
                                    /\ SourceIsDue(SourceNames[i], pa',
                                                   alert_source_last_run)))
                => \E k \in DOMAIN alerts' : Values(alerts')[k] = Values(alerts)[j]]_vars

\* A pass has expired the one-shot alert with a TTL that was loaded at
\* start-up and has kept the one-shot alerts of a class without a TTL.
C22_Witness ==
    /\ pa.pc = "recheck"
    /\ __should_run_or_send_alerts
    /\ \A k \in DOMAIN alerts : alerts[k].klass # "TaskFailed"
    /\ \E k \in DOMAIN alerts :
            alerts[k].klass = "AppUpdate" /\ alerts[k].node = node

\* ------------------------------------------------------------------ dismiss
\* The class goes neither through a dismiss hook nor through the deletion of
\* a one-shot alert that is not deleted automatically.
PlainClass(klass) ==
    /\ ~class_by_name[klass].dismissable
    /\ ~(class_by_name[klass].one_shot /\ ~class_by_name[klass].deleted_automatically)

ManualOneShot(klass) ==
    /\ ~class_by_name[klass].dismissable
    /\ class_by_name[klass].one_shot
    /\ ~class_by_name[klass].deleted_automatically

\* The store after the step is the store before it, the entry i being
\* dismissed.
DismissedAt(i) ==
    /\ Len(alerts') = Len(alerts)
    /\ \A j \in DOMAIN alerts :
            alerts'[j] = IF j = i THEN [alerts[j] EXCEPT !.dismissed = TRUE]
                                  ELSE alerts[j]

\* The store after the step is the store before it without the entry i.
RemovedAt(i) ==
    /\ Len(alerts') = Len(alerts) - 1
    /\ \A j \in DOMAIN alerts' :
            alerts'[j] = IF j < i THEN alerts[j] ELSE alerts[j + 1]

\* C23: a dismiss of the uuid of a stored alert of a plain class leaves the
\* alert in the store with dismissed = TRUE and emits one CHANGED event when
\* the alert is visible and none when it is not; a dismiss of the uuid of a
\* one-shot alert that is not deleted automatically removes that alert and
\* emits one REMOVED event; a dismiss of a uuid of no stored alert changes
\* neither the store nor the policies and emits nothing.
C23_DismissByIdentifier ==
    [][\A uuid \in Uuids :
        Dismiss(uuid) =>
            /\ \A i \in DOMAIN alerts :
                    alerts[i].uuid = uuid /\ PlainClass(alerts[i].klass)
                        => /\ DismissedAt(i)
                           /\ op_events' =
                                IF should_show_alert(alerts[i], sys.product_type)
                                THEN <<[name |-> "CHANGED", id |-> uuid]>>
                                ELSE <<>>
            /\ \A i \in DOMAIN alerts :
                    alerts[i].uuid = uuid /\ ManualOneShot(alerts[i].klass)
                        => /\ RemovedAt(i)
                           /\ op_events' = <<[name |-> "REMOVED", id |-> uuid]>>
            /\ (\A i \in DOMAIN alerts : alerts[i].uuid # uuid)
                    => /\ op_events' = <<>>
                       /\ UNCHANGED <<alerts, policies, db, queue, events>>]_vars

\* The operator has dismissed a visible alert of a plain class, then an
\* alert of a plain class that is not shown, then a one-shot alert that is
\* not deleted automatically.
C23_Witness ==
    /\ sys.product_type = "SCALE"
    /\ op_events = <<[name |-> "REMOVED", id |-> <<"A", "", "AppUpdate", "app1", 0>>]>>
    /\ \A i \in DOMAIN alerts : alerts[i].uuid # <<"A", "", "AppUpdate", "app1", 0>>
    /\ \E i \in DOMAIN alerts : alerts[i].klass = "DiskFail" /\ alerts[i].dismissed
    /\ \E i \in DOMAIN alerts : alerts[i].klass = "TaskFailed" /\ alerts[i].dismissed

\* ------------------------------------------------- dismissed and not gone
\* The identifiers the policy named p tracks.
Tracked(p) == UuidsOf(policies[p].last_key_value_alerts)

\* The step is a dismiss of uuid that removes the alert from the store.
DismissRemoves(uuid) ==
    /\ Dismiss(uuid)
    /\ \E i \in DOMAIN alerts : alerts[i].uuid = uuid
    /\ \A i \in DOMAIN alerts' : alerts'[i].uuid # uuid

Finished(i) ==
    /\ pa.pc \in {"check", "peer"}
    /\ i = pa.idx
    /\ pa'.pc = "recheck" \/ (pa'.pc = "check" /\ pa'.idx > pa.idx)

\* The step comes to the i-th source, finds it due and blocked and goes on.
BlockedDone(i) ==
    /\ Visits(i)
    /\ SourceIsDue(SourceNames[i], pa', alert_source_last_run)
    /\ pa'.pc = "recheck" \/ i < pa'.idx

Processed(i) == Finished(i) \/ BlockedDone(i)

\* The identities of the alerts of node n and the i-th source in the list s.
IdsOf(s, n, i) ==
    {IdentityOf(s[k]) : k \in {j \in DOMAIN s :
                                s[j].node = n /\ s[j].source = SourceNames[i]}}

\* The identities of what a check or the peer has returned: the first alert
\* of each key.
Obtained(outcome, n, i) ==
    {<<n, SourceNames[i], outcome.alerts[k].klass, outcome.alerts[k].key>> :
        k \in {j \in DOMAIN outcome.alerts :
                    \A h \in 1..(j - 1) : outcome.alerts[h].key # outcome.alerts[j].key}}

\* The identities the local node has obtained for the i-th source.
LocalObtained(i) ==
    IF BlockedDone(i) THEN {IdsOf(alerts, pa'.master_node, i)}
    ELSE IF pa.pc = "peer" THEN {IdsOf(pa.alerts_a, pa.master_node, i)}
    ELSE {IF outcome.kind = "ok" THEN Obtained(outcome, pa.master_node, i)
          ELSE IF outcome.kind = "raise"
          THEN {<<pa.master_node, SourceNames[i], "AlertSourceRunFailed", SourceNames[i]>>}
          ELSE IdsOf(pa.alerts_a, pa.master_node, i) :
            outcome \in {o \in CheckOutcomes(SourceNames[i]) : o.kind = pa'.outcome}}

\* The identities the peer has given for the i-th source.
PeerObtained(i) ==
    IF BlockedDone(i)
    THEN {IF RunsOnPeer(SourceNames[i], pa')
          THEN IdsOf(alerts, pa'.backup_node, i) ELSE {}}
    ELSE IF pa.pc = "check" THEN {{}}
    ELSE {IF outcome.kind = "ok" THEN Obtained(outcome, pa.backup_node, i)
          ELSE IF outcome.kind = "raise"
          THEN {<<pa.backup_node, SourceNames[i],
                  "AlertSourceRunFailedOnBackupNode", SourceNames[i]>>}
          ELSE IdsOf(pa.alerts_b, pa.backup_node, i) :
            outcome \in {o \in PeerOutcomes(SourceNames[i]) : o.kind = pa'.peer_outcome}}

\* C25: after the step of a pass that has processed the source S, the
\* entries of the store with source S are those the pass has obtained for S
\* on the local node and from the peer, one entry for each, all reconciled
\* at the instant of the pass; in every step, an entry of a source the step
\* has not processed (a source that is not due, not applicable or
\* suppressed, and the empty source of the one-shot alerts) that the expiry
\* does not remove stays in the store as it is, and no entry of such a
\* source is added.
C25_ReplacementPerSource ==
    /\ [][\A i \in DOMAIN SourceNames :
            Processed(i) =>
                LET after == {k \in DOMAIN alerts' : alerts'[k].source = SourceNames[i]}
                IN /\ \E la \in LocalObtained(i) : \E pb \in PeerObtained(i) :
                        {IdentityOf(alerts'[k]) : k \in after} = la \cup pb
                   /\ \A k \in after : \A h \in after :
                        IdentityOf(alerts'[k]) = IdentityOf(alerts'[h]) => k = h
                   /\ \A k \in after : alerts'[k].last_occurrence = now]_vars
    /\ [][\A j \in DOMAIN alerts :
            (/\ \A i \in DOMAIN SourceNames :
                    alerts[j].source = SourceNames[i] => ~Processed(i)
             /\ ~(Expires /\ Outlived(alerts[j], now)))
                => \E k \in DOMAIN alerts' : alerts'[k] = alerts[j]]_vars
    /\ [][\A k \in DOMAIN alerts' :
            (\A i \in DOMAIN SourceNames :
                    alerts'[k].source = SourceNames[i] => ~Processed(i))
                => \E j \in DOMAIN alerts : alerts[j] = alerts'[k]]_vars

\* A pass has run the source disk on both nodes, which now have an alert
\* each, one of them new, while the alerts of the suppressed source and the
\* one-shot alert are in the store as they were loaded.
C25_Witness ==
    /\ pa.pc \in {"check", "recheck"}
    /\ pa.outcome = "ok"
    /\ pa.peer_outcome = "ok"
    /\ \E j \in DOMAIN alerts : \E k \in DOMAIN alerts :
            /\ IdentityOf(alerts[j]) = <<"A", "disk", "DiskFail", "sdb">>
            /\ alerts[j].last_occurrence = now
            /\ IdentityOf(alerts[k]) = <<"B", "disk", "DiskFail", "sda">>
            /\ alerts[k].last_occurrence = now
    /\ \E j \in DOMAIN alerts : alerts[j] = Loaded("A", "ha", "AlertSourceRunFailed", "ha", FALSE)
    /\ \E j \in DOMAIN alerts : alerts[j] = Loaded("A", "", "AppUpdate", "app1", FALSE)

\* ------------------------------------------------------------- uniqueness
\* No two alerts of the store have the same (node, source, class, key).
UniqueIdentity ==
    \A i \in DOMAIN alerts : \A j \in DOMAIN alerts :
        IdentityOf(alerts[i]) = IdentityOf(alerts[j]) => i = j

\* C26: the store never holds two alerts of the same (node, source, class,
\* key); and when the check of a source has returned alerts, the source's
\* entries of the local node are one for each key returned, of the class of
\* the first alert returned with that key.
C26_UniqueIdentity ==
    /\ []UniqueIdentity
    /\ [][\A i \in DOMAIN SourceNames :
            (Finished(i) /\ pa.pc = "check" /\ pa'.outcome = "ok") =>
                \E outcome \in {o \in CheckOutcomes(SourceNames[i]) : o.kind = "ok"} :
                    LET after == {k \in DOMAIN alerts' :
                                    /\ alerts'[k].source = SourceNames[i]
                                    /\ alerts'[k].node = pa.master_node}
                    IN /\ {IdentityOf(alerts'[k]) : k \in after}
                            = Obtained(outcome, pa.master_node, i)
                       /\ \A k \in after : \A h \in after :
                            alerts'[k].key = alerts'[h].key => k = h]_vars

\* The check of disk has returned four alerts, two of them with the key of
\* the first: the store has the first and the third.
C26_Witness ==
    /\ pa.outcome = "ok"
    /\ \E j \in DOMAIN alerts : IdentityOf(alerts[j]) = <<"A", "disk", "DiskFail", "sda">>
    /\ \E j \in DOMAIN alerts : IdentityOf(alerts[j]) = <<"A", "disk", "DiskFail", "sdb">>
    /\ \A j \in DOMAIN alerts : alerts[j].klass # "TempHigh"
    /\ Cardinality({j \in DOMAIN alerts : alerts[j].source = "disk"}) = 2

\* ------------------------------------------------------------ the schedule
\* The i-th source applies to the product, is not a failover-related source
\* during the suppression, and its interval has passed since its last run.
Due(i) ==
    LET source == ALERT_SOURCES[SourceNames[i]]
    IN /\ sys.product_type \in source.products
       /\ source.failover_related => pa'.run_failover_related
       /\ now >= alert_source_last_run[SourceNames[i]] + source.interval

\* C27: the step of a pass that comes to a source sets the source's last-run
\* time to the instant of the pass when the source is due, be the source
\* blocked or not, and keeps it when the source is not due; the step in
\* which the check of a source or the call of the peer returns, whatever the
\* outcome, keeps the last-run time the source was given when the pass came
\* to it; a step keeps the last-run time of a source it does not come to.
C27_ScheduleAdvances ==
    /\ [][\A i \in DOMAIN SourceNames :
            Visits(i) =>
                alert_source_last_run'[SourceNames[i]] =
                    IF Due(i) THEN now ELSE alert_source_last_run[SourceNames[i]]]_vars
    /\ [][\A i \in DOMAIN SourceNames :
            ~Visits(i) =>
                alert_source_last_run'[SourceNames[i]] =
                    alert_source_last_run[SourceNames[i]]]_vars
    /\ [](pa.pc \in {"check", "peer"}
            => alert_source_last_run[SourceNames[pa.idx]] = now)

\* The second pass has ended: disk, due again, was blocked in it after its
\* check had raised in the first pass; temp was not due; the suppressed
\* source has never run.
C27_Witness ==
    /\ pa.pc = "recheck"
    /\ now = 2
    /\ pa.outcome = None
    /\ "disk" \in alert_sources_errors
    /\ sources_run_times["disk"] = 1
    /\ alert_source_last_run["disk"] = 2
    /\ alert_source_last_run["temp"] = 1
    /\ alert_source_last_run["ha"] = DatetimeMin

\* ------------------------------------------------------ the peer's errors
\* The step in which the call of the peer for the source S returns.
PeerReturns == pa.pc = "peer"

\* The local node's alerts of the source are those its check has given, and
\* the entries of the other sources that have not outlived a TTL stay as
\* they are.
LocalUnaffected ==
    /\ IdsOf(alerts', pa.master_node, pa.idx) = IdsOf(pa.alerts_a, pa.master_node, pa.idx)
    /\ \A j \in DOMAIN alerts :
            (/\ alerts[j].source # SourceNames[pa.idx]
             /\ \A i \in DOMAIN SourceNames :
                    alerts[j].source = SourceNames[i] => ~Processed(i)
             /\ ~Outlived(alerts[j], now))
                => \E k \in DOMAIN alerts' : alerts'[k] = alerts[j]

\* The peer's entries of the source are the stored ones, each kept.
PeerKept ==
    /\ IdsOf(alerts', pa.backup_node, pa.idx) = IdsOf(alerts, pa.backup_node, pa.idx)
    /\ \A j \in DOMAIN alerts :
            alerts[j].node = pa.backup_node /\ alerts[j].source = SourceNames[pa.idx]
                => Kept(alerts[j])

\* The peer's entries of the source are one alert of the class
\* AlertSourceRunFailedOnBackupNode.
PeerFailureAlert ==
    /\ IdsOf(alerts', pa.backup_node, pa.idx) =
            {<<pa.backup_node, SourceNames[pa.idx],
               "AlertSourceRunFailedOnBackupNode", SourceNames[pa.idx]>>}
    /\ Cardinality({k \in DOMAIN alerts' :
                        /\ alerts'[k].node = pa.backup_node
                        /\ alerts'[k].source = SourceNames[pa.idx]}) = 1

\* C28 as stated: a call of the peer that fails with a network error or the
\* peer's "unavailable" keeps the stored alerts of the peer, and every other
\* failure gives one failure alert of the peer; the local alerts and the
\* other sources are not affected.
C28_PeerErrors ==
    /\ [][(PeerReturns /\ pa'.peer_outcome = "network")
            => PeerKept /\ LocalUnaffected]_vars
    /\ [][(PeerReturns /\ pa'.peer_outcome \notin {"ok", "network"})
            => PeerFailureAlert /\ LocalUnaffected]_vars

\* C28, amended: a call of the peer that fails with a network error, the
\* peer's "unavailable" or the failure to reserve a privileged port keeps
\* the stored alerts of the peer with their uuid, dismissed flag and
\* first-seen time and adds no failure alert; every other failure gives
\* one failure alert of the peer node as the peer's entries of the source;
\* the local alerts of the source and the other sources are not affected.
C28_PeerErrorsOrPort ==
    /\ [][(PeerReturns /\ pa'.peer_outcome \in {"network", "reserve_fd"})
            => PeerKept /\ LocalUnaffected]_vars
    /\ [][(PeerReturns /\ pa'.peer_outcome = "raise")
            => PeerFailureAlert /\ LocalUnaffected]_vars

\* The call of the peer has failed in the first pass, which has left the
\* failure alert of the peer; in the second pass no port could be reserved
\* and the failure alert is still the peer's entry.
C28_Witness ==
    /\ pa.pc \in {"check", "recheck"}
    /\ pa.peer_outcome = "reserve_fd"
    /\ now = 2
    /\ \E j \in DOMAIN alerts :
            /\ IdentityOf(alerts[j]) = <<"B", "disk", "AlertSourceRunFailedOnBackupNode", "disk">>
            /\ alerts[j].datetime = 1
            /\ alerts[j].last_occurrence = 2
    /\ \A j \in DOMAIN alerts :
            alerts[j].node = "B" => alerts[j].klass = "AlertSourceRunFailedOnBackupNode"

\* ------------------------------------------------------ unavailable sources
\* C29: when the processing of a source whose check has signalled
\* "unavailable" ends, the source's entries of the local node are the
\* stored ones, each with its uuid, dismissed flag and first-seen time (so
\* no AlertSourceRunFailed alert is added for it), and the source is not
\* put into the set of the sources that fail.
C29_UnavailableIsNoError ==
    [][\A i \in DOMAIN SourceNames :
        (Finished(i) /\ pa'.outcome = "unavailable") =>
            /\ IdsOf(alerts', pa.master_node, i) = IdsOf(alerts, pa.master_node, i)
            /\ \A j \in DOMAIN alerts :
                    alerts[j].node = pa.master_node /\ alerts[j].source = SourceNames[i]
                        => Kept(alerts[j])
            /\ Cardinality({k \in DOMAIN alerts' :
                    alerts'[k].node = pa.master_node /\ alerts'[k].source = SourceNames[i]})
                = Cardinality({j \in DOMAIN alerts :
                    alerts[j].node = pa.master_node /\ alerts[j].source = SourceNames[i]})
            /\ alert_sources_errors' = alert_sources_errors]_vars

\* The check of disk has signalled "unavailable" in a pass later than the
\* first: the store has the alert loaded at start-up, and no failure alert
\* while the source is not among those that fail.
C29_Witness ==
    /\ pa.pc \in {"check", "recheck"}
    /\ pa.outcome = "unavailable"
    /\ "disk" \notin alert_sources_errors
    /\ sources_run_times["disk"] = 2
    /\ \E j \in DOMAIN alerts :
            /\ alerts[j].uuid = <<"A", "disk", "DiskFail", "sda", 0>>
            /\ alerts[j].last_occurrence = now
    /\ \A j \in DOMAIN alerts : alerts[j].klass # "AlertSourceRunFailed"

\* -------------------------------------------------------------- the load hook
\* C30: after initialize() has loaded the rows, the alerts of the store of
\* every one-shot class that has a loaded alert are what the load hook of
\* the class returns for the loaded alerts of the class, and the alerts of
\* every other class are the loaded alerts of the class.
C30_LoadHookApplied ==
    (policies # <<>> /\ db # <<>>) =>
        LET loaded == UniqueByUuid(SelectSeq(db, KnownRow))
        IN \A klass \in DOMAIN class_by_name :
            OfClass(loaded, klass) # <<>> =>
                OfClass(alerts, klass) =
                    IF class_by_name[klass].one_shot
                    THEN LoadHook(klass, OfClass(loaded, klass))
                    ELSE OfClass(loaded, klass)

\* ------------------------------------------------------- seeded policies
\* The alert was loaded at start-up (instant 0); an alert made later has the
\* instant of its making in its uuid.
LoadedAtStartup(a) == a.uuid[5] = 0

\* The policy named p has computed no difference since start-up.
StillSeeded(p) == policies[p].last_key_value = PolicyKey(p, 0)

\* The first difference a policy computes after start-up has as new only
\* alerts that were not loaded and as gone only loaded alerts that the
\* store no longer holds.
FirstDiffIsGenuine ==
    \A p \in PolicyNames :
        (Received(p) /\ StillSeeded(p)) =>
            /\ \A k \in DOMAIN sa'.new_alerts : ~LoadedAtStartup(sa'.new_alerts[k])
            /\ \A k \in DOMAIN sa'.gone_alerts :
                    /\ LoadedAtStartup(sa'.gone_alerts[k])
                    /\ sa'.gone_alerts[k].uuid \notin UuidsOf(alerts)
            /\ (\A k \in DOMAIN alerts : LoadedAtStartup(alerts[k]))
                    => sa'.new_alerts = <<>>

\* C31 as stated: after start-up every policy tracks the loaded alerts, and
\* the first difference of each policy is genuine.
C31_EveryPolicySeeded ==
    /\ \A p \in PolicyNames : Tracked(p) = UuidsOf(alerts)
    /\ [][FirstDiffIsGenuine]_vars

\* C31, amended: after start-up every policy but NEVER tracks the loaded
\* alerts under the key of the instant of start-up, and NEVER, whose key
\* never changes, tracks nothing; the first difference of each policy has as
\* new only alerts that were not loaded and as gone only loaded alerts that
\* are no longer in the store, so that with an unchanged store the first
\* pass reports nothing for any policy.
C31_PoliciesSeeded ==
    /\ \A p \in PolicyNames \ {"NEVER"} :
            /\ Tracked(p) = UuidsOf(alerts)
            /\ policies[p].last_key_value = PolicyKey(p, now)
    /\ policies["NEVER"] = NewPolicy
    /\ [][FirstDiffIsGenuine]_vars

\* The first dispatch pass after start-up, with the loaded alerts in the
\* store beside an alert made since: IMMEDIATELY reports that alert as new
\* and nothing as gone.
C31_Witness ==
    /\ sa.pc = "services"
    /\ POLICIES[sa.policy] = "IMMEDIATELY"
    /\ sent = <<>>
    /\ events = <<>>
    /\ sa.gone_alerts = <<>>
    /\ sa.new_alerts # <<>>
    /\ \A k \in DOMAIN sa.new_alerts : ~LoadedAtStartup(sa.new_alerts[k])
    /\ \E k \in DOMAIN alerts : LoadedAtStartup(alerts[k])
    /\ policies["HOURLY"].last_key_value = PolicyKey("HOURLY", 0)

\* ------------------------------------------------------------ the skip rule
\* The step in which send is called for a service, and that service.
SendStep == Len(sent') = Len(sent) + 1
SentTo == sent'[Len(sent')].service

\* The step in which the loop over the services of a policy ends.
ServicesEnd ==
    /\ sa.pc = "services"
    /\ ~SendStep
    /\ sa'.pc = "idle" \/ sa'.policy # sa.policy

\* The three lists of the j-th service, dismissed alerts dropped, are empty.
AllEmpty(j) ==
    LET args == SendArgs(AlertServices[j], POLICIES[sa.policy])
    IN args.alerts = <<>> /\ args.gone = <<>> /\ args.new = <<>>

\* The j-th service has nothing gone and nothing new after the filters and
\* the cancellation, or no backend can be built for it.
NothingToTell(j) ==
    LET l == ServiceLists(AlertServices[j], POLICIES[sa.policy])
    IN \/ l.gone = <<>> /\ l.new = <<>>
       \/ AlertServices[j].type \notin ALERT_SERVICES_FACTORIES
       \/ AlertServices[j].attributes = "invalid"

\* C32 as stated: a service is passed over exactly when its three lists are
\* empty, and send is called with the three lists otherwise.
C32_SkippedWhenAllEmpty ==
    /\ [][SendStep =>
            /\ \A j \in sa.service..(SentTo - 1) : AllEmpty(j)
            /\ ~AllEmpty(SentTo)
            /\ last_send' = SendArgs(AlertServices[SentTo], POLICIES[sa.policy])]_vars
    /\ [][ServicesEnd => \A j \in sa.service..Len(AlertServices) : AllEmpty(j)]_vars

\* C32, amended: a service is passed over exactly when, after the filters
\* and the cancellation, it has nothing gone and nothing new (whatever its
\* list of all alerts), or its backend type is unknown or its backend
\* cannot be built, or its three lists are empty once the dismissed alerts
\* are dropped; for every other service send is called with the three
\* lists without the dismissed alerts.
C32_SkippedWhenNothingChanged ==
    /\ [][SendStep =>
            /\ \A j \in sa.service..(SentTo - 1) : NothingToTell(j) \/ AllEmpty(j)
            /\ ~NothingToTell(SentTo) /\ ~AllEmpty(SentTo)
            /\ last_send' = SendArgs(AlertServices[SentTo], POLICIES[sa.policy])]_vars
    /\ [][ServicesEnd =>
            \A j \in sa.service..Len(AlertServices) :
                NothingToTell(j) \/ AllEmpty(j)]_vars

\* IMMEDIATELY has told the third service, the first whose backend exists
\* and can be built, of a new alert; under HOURLY every service was passed
\* over, and the pass is at DAILY.
C32_Witness ==
    /\ sa.pc = "services"
    /\ POLICIES[sa.policy] = "DAILY"
    /\ sent # <<>>
    /\ sent[1].service = 3
    /\ \A k \in DOMAIN sent : sent[k].policy = "IMMEDIATELY"
    /\ \E k \in DOMAIN alerts :
            /\ ~alerts[k].dismissed
            /\ Passes(alerts[k], AlertServices[3])
            /\ get_alert_policy(alerts[k]) # "NEVER"

\* ------------------------------------------------- the filters of a service
\* The class of the alert applies to the product and the alert is at or
\* above the level of the j-th service.
MeetsThreshold(a, j) ==
    /\ sys.product_type \in class_by_name[a.klass].products
    /\ get_alert_level(a) >= AlertLevel[AlertServices[j].level]

\* The policy of the alert: that of its class if one is configured.
EffectivePolicy(a) ==
    IF a.klass \in DOMAIN classes.policy THEN classes.policy[a.klass] ELSE "IMMEDIATELY"

\* C33: in every call of send the gone and the new alerts have the policy
\* being processed, every alert of the three arguments is of a class of the
\* product and at or above the level of the service, and a service is sent
\* to at most once under a policy in a pass, so that a gone or new alert is
\* reported to it under at most one policy.
C33_FilteredPerPolicy ==
    [][SendStep =>
        /\ \A k \in DOMAIN last_send'.gone :
                /\ EffectivePolicy(last_send'.gone[k]) = POLICIES[sa.policy]
                /\ MeetsThreshold(last_send'.gone[k], SentTo)
        /\ \A k \in DOMAIN last_send'.new :
                /\ EffectivePolicy(last_send'.new[k]) = POLICIES[sa.policy]
                /\ MeetsThreshold(last_send'.new[k], SentTo)
        /\ \A k \in DOMAIN last_send'.alerts :
                MeetsThreshold(last_send'.alerts[k], SentTo)
        /\ sent'[Len(sent')].policy = POLICIES[sa.policy]
        /\ \A k \in DOMAIN sent :
                sent[k].service = SentTo => sent[k].policy # POLICIES[sa.policy]]_vars

\* The third service was sent to under IMMEDIATELY and is now told of a new
\* alert under HOURLY, which is below the level of the fourth service,
\* while the store holds an alert of another policy.
C33_Witness ==
    /\ Len(sent) >= 2
    /\ sent[1].policy = "IMMEDIATELY" /\ sent[1].service = 3
    /\ sent[Len(sent)].policy = "HOURLY" /\ sent[Len(sent)].service = 3
    /\ last_send.new # <<>>
    /\ \E k \in DOMAIN last_send.alerts :
            EffectivePolicy(last_send.alerts[k]) = "IMMEDIATELY"
    /\ \E k \in DOMAIN last_send.new : ~MeetsThreshold(last_send.new[k], 4)

\* ------------------------------------------- dismissed alerts and the outside
\* C34: no alert that is dismissed when the dispatch pass runs is passed to
\* a backend, has its mail sent or is listed in the support ticket.
C34_DismissedSuppressed ==
    \A a \in Range(last_send.alerts) \cup Range(last_send.gone)
                \cup Range(last_send.new) \cup Range(outbound.mail)
                \cup Range(outbound.ticket_gone) \cup Range(outbound.ticket_new) :
        ~a.dismissed

\* ------------------------------------------------------------ the hand-off
\* The job starts still to come: the waiting jobs, and the dispatch pass a
\* waiting or running scheduling pass may request.
Owed ==
    Len(queue) + Cardinality(Pending(queue, "process_alerts"))
        + (IF pa.pc # "idle" THEN 1 ELSE 0)

\* The clock of the model leaves room for n instants more and for the job
\* starts still to come.
InTime(n) == now + n + Owed <= MaxNow

timer_fires == InTime(2) /\ periodic_process_alerts
operator_dismisses == InTime(1) /\ dismiss
role_changes_in_time == InTime(1) /\ role_changes

\* A node of an HA pair on which every job that waits gets its lock: one
\* scheduling pass, a dismiss or a change of role at any of its awaits, and
\* the dispatch pass it requests.
NextHandOff ==
    \/ timer_fires
    \/ operator_dismisses
    \/ role_changes_in_time
    \/ process_alerts_start
    \/ run_alerts_start
    \/ source_check_returns
    \/ process_alerts_end
    \/ send_alerts_start
    \/ send_alerts_service
    \/ send_alerts_next_policy

\* The oldest waiting job whose lock is free is a job of the method, and the
\* clock of the model lets it start.
CanStart(method) ==
    NextJob # 0 /\ queue[NextJob].method = method /\ now < MaxNow

\* The dispatch pass has no service left to send to under the policy.
CanLeavePolicy == sa.pc = "services" /\ NextSend(sa.service) = 0

\* WF_vars(send_alerts_start), the condition under which the step can be
\* taken written as the state predicate it is.
FairDispatchStart ==
    []<>(~CanStart("send_alerts")) \/ []<><<send_alerts_start>>_vars

\* WF_vars(send_alerts_next_policy), written likewise.
FairNextPolicy ==
    []<>(~CanLeavePolicy) \/ []<><<send_alerts_next_policy>>_vars

\* The lock is granted to the oldest waiting job and every awaited call
\* returns.
SpecHandOff ==
    /\ InitFailover
    /\ [][NextHandOff]_vars
    /\ WF_vars(process_alerts_start)
    /\ WF_vars(run_alerts_start)
    /\ WF_vars(source_check_returns)
    /\ WF_vars(process_alerts_end)
    /\ WF_vars(send_alerts_service)
    /\ FairDispatchStart
    /\ FairNextPolicy

DispatchRequested == \E i \in DOMAIN queue : queue[i].method = "send_alerts"

\* The dispatch pass has its lock and has either received the store or, the
\* system not being READY, put the dispatch off.
DispatchRuns ==
    /\ ~DispatchRequested
    /\ sa.pc = "services" \/ SEND_ALERTS_ON_READY

\* The scheduling pass, whose preconditions held at its start, ends with
\* the preconditions holding again.
PassEndsWell ==
    /\ pa.pc = "recheck"
    /\ pa'.pc = "idle"
    /\ ~(sys.state # "READY")
    /\ ~(sys.licensed /\ (sys.status = "BACKUP" \/ sys.in_progress))

\* The dispatch pass gets the lock.
DispatchStarts ==
    /\ DispatchRequested
    /\ \A i \in DOMAIN queue' : queue'[i].method # "send_alerts"

\* C35: a scheduling pass whose preconditions hold at its start and at the
\* re-check requests a dispatch pass; a requested dispatch pass eventually
\* runs; it starts when the scheduling pass has released the lock, and the
\* store it receives is the store of that instant.
C35_HandOff ==
    /\ [][PassEndsWell =>
            /\ \E i \in DOMAIN queue' : queue'[i].method = "send_alerts"
            /\ alerts' = alerts]_vars
    /\ DispatchRequested ~> DispatchRuns
    /\ [][DispatchStarts =>
            /\ pa.pc = "idle" /\ pa'.pc = "idle"
            /\ sys.state = "READY" =>
                    /\ sa'.pc = "services"
                    /\ UuidsOf(policies'["IMMEDIATELY"].last_key_value_alerts)
                            = UuidsOf(alerts)
                    /\ sa'.new_alerts =
                            SelectSeq(alerts, LAMBDA a :
                                a.uuid \notin Tracked("IMMEDIATELY"))]_vars

\* The dispatch pass runs on a store in which an alert the scheduling pass
\* made was dismissed before the dispatch pass got the lock.
C35_Witness ==
    /\ sa.pc = "services"
    /\ POLICIES[sa.policy] = "IMMEDIATELY"
    /\ \E k \in DOMAIN sa.new_alerts :
            sa.new_alerts[k].dismissed /\ sa.new_alerts[k].uuid[5] > 0

\* ------------------------------------------------- the events of an alert
\* A task fails and its one-shot alert, which the operator deletes by
\* dismissing it, is created.
task_fails ==
    /\ Len(queue) < MaxQueue
    /\ queue' = Enqueue(queue, Request("oneshot_create", <<"AutomaticAlertFailed">>, "task1"))
    /\ UNCHANGED <<now, env, db, alerts, policies, alert_source_last_run,
                   alert_sources_errors, sources_run_times, sources_locks, SEND_ALERTS_ON_READY,
                   pa, sa, oc, od, told>>

\* One-shot alerts are created, dispatch passes tell of them, and an
\* operator dismisses and restores alerts at any await.
NextEvents ==
    \/ task_fails
    \/ oneshot_create_start
    \/ oneshot_create_end
    \/ send_alerts_start
    \/ send_alerts_service
    \/ send_alerts_next_policy
    \/ dismiss
    \/ restore

SpecEvents == Init /\ [][NextEvents]_vars

\* The alert.list events the step sends: those of a dispatch pass at the
\* end of its services, those of a dismiss.
EmittedBy(evs) ==
    \A i \in DOMAIN evs :
        /\ evs[i].name \in {"ADDED", "REMOVED"} => evs[i].id \notin removed
        /\ \A j \in DOMAIN evs :
                (j # i /\ evs[j].id = evs[i].id /\ evs[i].name = "REMOVED")
                    => evs[j].name \notin {"ADDED", "REMOVED"} \/ j < i

\* C36: once REMOVED was sent for an id no ADDED is sent for it, and
\* REMOVED is sent at most once for an id.
C36_EventsConsistent ==
    /\ [][ServicesEnd => EmittedBy(events')]_vars
    /\ [][dismiss => EmittedBy(op_events')]_vars

\* ---------------------------------------------- the operator and the pass
\* A node of an HA pair whose roles change while scheduling passes run and
\* an operator dismisses and restores alerts at any await.
NextRollback ==
    \/ periodic_process_alerts
    \/ process_alerts_start
    \/ run_alerts_start
    \/ source_check_returns
    \/ process_alerts_end
    \/ dismiss
    \/ restore
    \/ role_changes

SpecRollback == InitFailover /\ [][NextRollback]_vars

\* A step of the scheduling pass after its start.
PassStep == pa.pc # "idle" /\ now' = now /\ pa' # pa

\* C37: no step of a scheduling pass, the rollback included, changes the
\* dismissed flag of a stored alert or brings back a one-shot alert that a
\* dismiss removed (nothing else removes one in this specification).
C37_OperatorActionsSurvive ==
    [][PassStep =>
        \A k \in DOMAIN alerts' :
            /\ \A j \in DOMAIN alerts :
                    alerts[j].uuid = alerts'[k].uuid
                        => alerts[j].dismissed = alerts'[k].dismissed
            /\ ManualOneShot(alerts'[k].klass)
                    => alerts'[k].uuid \in UuidsOf(alerts)]_vars

\* ------------------------------------------------------------ no redelivery
\* When send is called under a policy, the policy has recorded the bucket
\* of the pass, tracks every new alert of the call that the store still
\* holds and tracks no gone alert of the call.
AdvancedBeforeSend ==
    SendStep =>
        LET p == POLICIES[sa.policy]
        IN /\ policies[p].last_key_value = PolicyKey(p, sa.now)
           /\ \A k \in DOMAIN last_send'.new :
                    \/ last_send'.new[k].uuid \in Tracked(p)
                    \/ last_send'.new[k].uuid \notin UuidsOf(alerts)
           /\ \A k \in DOMAIN last_send'.gone :
                    last_send'.gone[k].uuid \notin Tracked(p)

\* An alert a policy tracks stays tracked as long as the store holds it.
StaysTracked ==
    \A p \in PolicyNames :
        \A u \in Tracked(p) :
            u \in UuidsOf(alerts) /\ u \in UuidsOf(alerts')
                => u \in UuidsOf(policies'[p].last_key_value_alerts)

\* A policy reports as new no alert it tracks and as gone only alerts it
\* tracks and the store lacks.
DiffAgainstTracked ==
    \A p \in PolicyNames :
        Received(p) =>
            /\ \A k \in DOMAIN sa'.new_alerts :
                    sa'.new_alerts[k].uuid \notin Tracked(p)
            /\ \A k \in DOMAIN sa'.gone_alerts :
                    /\ sa'.gone_alerts[k].uuid \in Tracked(p)
                    /\ sa'.gone_alerts[k].uuid \notin UuidsOf(alerts)

\* C38: the tracked bucket and set of a policy are advanced before a
\* backend is called, whatever the call returns; an alert offered as new
\* stays tracked while the store holds it and is therefore not new in a
\* later pass, and an alert offered as gone is no longer tracked and is
\* therefore not gone again, unless it leaves the store and comes back.
C38_NoRedelivery ==
    /\ [][AdvancedBeforeSend]_vars
    /\ [][StaysTracked]_vars
    /\ [][DiffAgainstTracked]_vars

\* The send of the third service has failed with a new alert among its
\* arguments, which IMMEDIATELY tracks, and the pass goes on.
C38_Witness ==
    /\ sa.pc = "services"
    /\ POLICIES[sa.policy] = "IMMEDIATELY"
    /\ sent # <<>>
    /\ sent[Len(sent)].service = 3
    /\ sent[Len(sent)].result = "error"
    /\ last_send.new # <<>>
    /\ \A k \in DOMAIN last_send.new : last_send.new[k].uuid \in Tracked("IMMEDIATELY")

\* ------------------------------------------------ dispatch before readiness
\* The service has been set up (initialize() has run) and the system is
\* still booting.
InitBoot ==
    /\ now = 0
    /\ node = "A"
    /\ sys = [SingleNode EXCEPT !.state = "BOOTING"]
    /\ alerts \in LoadedStores
    /\ policies = SeededPolicies(alerts, 0)
    /\ alert_source_last_run = [s \in DOMAIN ALERT_SOURCES |-> DatetimeMin]
    /\ alert_sources_errors = {}
    /\ sources_locks = <<>>
    /\ sources_run_times = [s \in DOMAIN ALERT_SOURCES |-> 0]
    /\ db = Rows(alerts)
    /\ SEND_ALERTS_ON_READY = FALSE
    /\ queue = <<>>
    /\ pa = PaIdle
    /\ sa = SaIdle
    /\ oc = OcIdle
    /\ od = OdIdle
    /\ sent = <<>>
    /\ last_send = NoSend
    /\ events = <<>>
    /\ op_events = <<>>
    /\ outbound = NoOutbound
    /\ removed = {}

_event_system_ignored(q) == q

\* _event_system: the subscriber of system.ready.
_event_system(q) == IF SEND_ALERTS_ON_READY THEN CallSendAlerts(q) ELSE q

\* The system becomes READY and the event system.ready is sent.
system_ready ==
    /\ sys.state = "BOOTING"
    /\ sys' = [sys EXCEPT !.state = "READY"]
    /\ queue' = _event_system(queue)
    /\ UNCHANGED <<now, node, db, alerts, policies, alert_source_last_run,
                   alert_sources_errors, sources_run_times, sources_locks,
                   SEND_ALERTS_ON_READY, pa, sa, oc, od, told>>

\* One-shot alerts are created while the system boots and after it, and
\* the dispatch passes they request run.
NextBoot ==
    \/ oneshot_create_call
    \/ task_fails
    \/ oneshot_create_start
    \/ oneshot_create_end
    \/ send_alerts_start
    \/ send_alerts_service
    \/ send_alerts_next_policy
    \/ system_ready

SpecBoot == InitBoot /\ [][NextBoot]_vars

\* The system becomes READY.
BecomesReady == sys.state # "READY" /\ sys'.state = "READY"

\* C39: a dispatch pass that gets the lock while the system is not READY
\* receives for no policy, calls no backend, sends no event or mail and
\* records that a dispatch is owed; no step changes a policy while the
\* system is not READY; when the system becomes READY with a dispatch owed,
\* a dispatch pass is requested; and the dispatch pass that starts when the
\* system is READY reports as new every stored alert made since start-up.
C39_DeferredUntilReady ==
    /\ [][(DispatchStarts /\ sys.state # "READY") =>
            /\ SEND_ALERTS_ON_READY'
            /\ UNCHANGED <<policies, sa, sent, last_send, events, op_events,
                           outbound, removed, alerts, db>>]_vars
    /\ [][sys.state # "READY" => policies' = policies]_vars
    /\ [][(BecomesReady /\ SEND_ALERTS_ON_READY) =>
            \E i \in DOMAIN queue' : queue'[i].method = "send_alerts"]_vars
    /\ [][(DispatchStarts /\ sys.state = "READY") =>
            \A k \in DOMAIN alerts :
                ~LoadedAtStartup(alerts[k])
                    => \/ alerts[k].uuid \in Tracked("IMMEDIATELY")
                       \/ \E j \in DOMAIN sa'.new_alerts :
                                sa'.new_alerts[j].uuid = alerts[k].uuid]_vars

\* A dispatch was put off, the system has become READY, and the dispatch
\* pass reports an alert as new.
C39_Witness ==
    /\ SEND_ALERTS_ON_READY
    /\ sys.state = "READY"
    /\ sa.pc = "services"
    /\ POLICIES[sa.policy] = "IMMEDIATELY"
    /\ \E k \in DOMAIN sa.new_alerts : ~LoadedAtStartup(sa.new_alerts[k])

\* ------------------------------------------------------ the peer's alerts
\* What the three calls of the peer at the start of a pass can find: a peer
\* that is READY, BACKUP and of the same version, one that does not answer,
\* one of another version, one that is not READY, one that is not BACKUP.
PeerStates ==
    {HaPair.peer,
     [HaPair.peer EXCEPT !.reachable = FALSE],
     [HaPair.peer EXCEPT !.same_version = FALSE],
     [HaPair.peer EXCEPT !.state = "BOOTING"],
     [HaPair.peer EXCEPT !.status = "MASTER"]}

PeerSystems == {[HaPair EXCEPT !.peer = p] : p \in PeerStates}

\* The store of the MASTER after start-up: the peer's alerts of a source
\* that runs on the peer and of one that does not, and the peer's one-shot
\* alert.
PeerStore ==
    <<Loaded("A", "disk", "DiskFail", "sda", FALSE),
      Loaded("B", "disk", "DiskFail", "sda", FALSE),
      Loaded("B", "temp", "TempHigh", "cpu0", FALSE),
      Loaded("B", "", "AppUpdate", "app1", FALSE)>>

InitPeer ==
    /\ now = 0
    /\ node = "A"
    /\ sys \in PeerSystems
    /\ alerts = PeerStore
    /\ policies = SeededPolicies(alerts, 0)
    /\ alert_source_last_run = [s \in DOMAIN ALERT_SOURCES |-> DatetimeMin]
    /\ alert_sources_errors = {}
    /\ sources_locks = <<>>
    /\ sources_run_times = [s \in DOMAIN ALERT_SOURCES |-> 0]
    /\ db = Rows(alerts)
    /\ SEND_ALERTS_ON_READY = FALSE
    /\ queue = <<>>
    /\ pa = PaIdle
    /\ sa = SaIdle
    /\ oc = OcIdle
    /\ od = OdIdle
    /\ sent = <<>>
    /\ last_send = NoSend
    /\ events = <<>>
    /\ op_events = <<>>
    /\ outbound = NoOutbound
    /\ removed = {}

\* The MASTER of a pair whose peer may not be fit to be asked: scheduling
\* passes and the dispatch passes they request.
NextPeer ==
    \/ periodic_process_alerts
    \/ process_alerts_start
    \/ run_alerts_start
    \/ source_check_returns
    \/ peer_call_returns
    \/ process_alerts_end
    \/ send_alerts_start
    \/ send_alerts_service
    \/ send_alerts_next_policy
    \/ peer_changes

SpecPeer == InitPeer /\ [][NextPeer]_vars

\* What lines 662-677 find at the start of a pass.
PeerEligible ==
    /\ sys.product_type = "SCALE_ENTERPRISE"
    /\ sys.licensed
    /\ sys.peer.reachable
    /\ sys.peer.same_version
    /\ sys.peer.state = "READY"
    /\ sys.peer.status = "BACKUP"

\* The pass does not mirror the i-th source: the peer was not eligible at
\* the start of the pass or the source does not run on the peer.
NotMirrored(i) ==
    ~(pa'.run_on_backup_node /\ ALERT_SOURCES[SourceNames[i]].run_on_backup_node)

\* C40: a source that a pass processes without mirroring it ends with no
\* alert of the peer node in the store; whether the pass mirrors is what
\* the start of the pass found (peer reachable, of the same version, READY
\* and BACKUP) and does not change during the pass; the peer is called only
\* in a pass that mirrors, for a source that runs on the peer; and the next
\* IMMEDIATELY diff has among its gone alerts every peer alert of a source
\* that the policy tracks and the store has lost.
C40_PeerAlertsDropped ==
    /\ [][\A i \in DOMAIN SourceNames :
            (Processed(i) /\ NotMirrored(i)) =>
                \A k \in DOMAIN alerts' :
                    ~(/\ alerts'[k].source = SourceNames[i]
                      /\ alerts'[k].node = pa'.backup_node)]_vars
    /\ [][(pa.pc = "run_alerts" /\ pa'.pc # "run_alerts")
                => pa'.run_on_backup_node = PeerEligible]_vars
    /\ [][(pa.pc \in {"check", "peer"} /\ pa'.pc # "idle")
                => pa'.run_on_backup_node = pa.run_on_backup_node]_vars
    /\ [][pa'.pc = "peer" =>
            /\ pa'.run_on_backup_node
            /\ ALERT_SOURCES[SourceNames[pa'.idx]].run_on_backup_node]_vars
    /\ [][Received("IMMEDIATELY") =>
            \A u \in Tracked("IMMEDIATELY") :
                (u[1] # node /\ u[2] # "" /\ u \notin UuidsOf(alerts))
                    => \E k \in DOMAIN sa'.gone_alerts :
                            sa'.gone_alerts[k].uuid = u]_vars

\* The peer was not eligible: the pass has removed the peer's alerts of both
\* sources, kept the peer's one-shot alert, and the dispatch pass that
\* follows has both among its gone alerts.
C40_Witness ==
    /\ ~PeerEligible
    /\ sa.pc = "services"
    /\ POLICIES[sa.policy] = "IMMEDIATELY"
    /\ \E k \in DOMAIN sa.gone_alerts :
            sa.gone_alerts[k].node = "B" /\ sa.gone_alerts[k].source = "disk"
    /\ \E k \in DOMAIN sa.gone_alerts :
            sa.gone_alerts[k].node = "B" /\ sa.gone_alerts[k].source = "temp"
    /\ \A k \in DOMAIN alerts : alerts[k].node = "B" => alerts[k].source = ""
    /\ \E k \in DOMAIN alerts : alerts[k].node = "B"

====
